---- MODULE Spec2Model ----
(***************************************************************************)
(* LLMtoast: the selection-capture protocol                                *)
(* (attempt_copy_via_wmcopy_and_sendinput), the hotkey cycle that calls it *)
(* (App._on_hotkey), the clipboard helpers and the hotkey registration.    *)
(*                                                                         *)
(* Further views on the same variables: the tray commands that toggle the  *)
(* hotkey and quit (SpecHotkey), one clipboard helper call taken API call  *)
(* by API call (SpecClipboard), the LLM client's explain_selection / chat  *)
(* (SpecLlm), the threads around the task queue and the chat window        *)
(* (SpecUi), the capture attempt with OS calls that fail (SpecFaults),     *)
(* the task pump under fairness (SpecTasks), threads sharing one           *)
(* SessionLogger (SpecSlog), the stored API key (SpecKey) and the focus    *)
(* inspector (SpecFocus).                                                  *)
(*                                                                         *)
(* Time is counted in units of 5 ms: time.sleep(0.005) is 1 unit,          *)
(* time.sleep(0.01) is 2 units, time.sleep(0.02) is 4 units.               *)
(***************************************************************************)
EXTENDS Integers, Sequences, FiniteSets, TLC

(* ------------------------------ bounds -------------------------------- *)
\* budgets tried for max_wait_ms: 10 units (50 ms) times 1..MaxBudgetSteps
MaxBudgetSteps == 2
\* physical key presses/releases by the user during one hotkey cycle
MaxKeyEvents == 1
\* clipboard writes by applications other than the target during one cycle
MaxOtherWrites == 1
\* clipboard opens that fail during one cycle
MaxOpenFails == 1
\* hotkeys taken or released by other applications during startup
MaxHotkeyChanges == 1
\* tray menu commands (Enable Hotkey, Quit) in one run
MaxToggles == 2
\* clipboard helper calls in one run of the clipboard view
MaxClipCalls == 2
\* clipboard API calls, other than OpenClipboard, that raise in one run
MaxApiFails == 1
\* times another application opens the clipboard in one run
MaxOtherOpens == 2
\* hotkey messages, tray clicks and chat window events in one run
MaxUiEvents == 4
\* SendInput calls the OS rejects during one attempt
MaxInjectFails == 2
\* SessionLogger calls made by all threads in one run
MaxLogCalls == 3
\* set_api_key / get_api_key / delete_api_key calls in one run
MaxKeyCalls == 3
\* keyring calls that raise in one run
MaxCredFails == 2
\* focus inspections in one run of the focus view
MaxFocusCalls == 3

(* ------------------------- program constants -------------------------- *)
PollSleep == 4
LiftSleep == 2
CtrlSleep == 2
CKeySleep == 1
RestoreSleep == 1
SendTimeout == 60

None == "<None>"
NoHwnd == 0

ModKeys == <<"SHIFT", "ALT", "LWIN", "RWIN">>
Keys == {"SHIFT", "ALT", "LWIN", "RWIN", "CTRL"}

Budgets == {10 * k : k \in 1..MaxBudgetSteps}

(* ----------------------------- clipboard ------------------------------ *)
\* A clipboard content: the CF_UNICODETEXT payload, the CF_TEXT payload
\* (raw bytes) and whether some non-text format is present.
EmptyClip == [uni |-> None, ansi |-> None, other |-> FALSE]
UniClip(t) == [uni |-> t, ansi |-> None, other |-> FALSE]
AnsiClip(b) == [uni |-> None, ansi |-> b, other |-> FALSE]
ImageClip == [uni |-> None, ansi |-> None, other |-> TRUE]

\* raw.decode('mbcs', errors='replace'): bytes to text, an undecodable byte
\* becomes the replacement character.
DecodeMbcs(raw) ==
  CASE raw = "bytes:old" -> "old"
    [] raw = "bytes:bad" -> "o?d"
    [] OTHER -> "?"

\* text returned by get_clipboard_text when the clipboard opens
ReadableText(c) ==
  IF c.uni # None THEN c.uni
  ELSE IF c.ansi # None THEN DecodeMbcs(c.ansi)
  ELSE None

\* get_clipboard_text: OpenClipboard may raise, then text stays None
GetClipboardText(c, opened) == IF opened THEN ReadableText(c) ELSE None

\* the text written under CF_TEXT instead of CF_UNICODETEXT
SetTextContent_ansi(c, text) == [uni |-> None, ansi |-> text, other |-> FALSE]

\* content after EmptyClipboard + SetClipboardData(CF_UNICODETEXT, text)
SetTextContent(c, text) == UniClip(text)

\* set_clipboard_text: a failed OpenClipboard leaves the content alone
SetClipboardText(c, text, opened) == IF opened THEN SetTextContent(c, text) ELSE c

\* `sel is None` instead of `not sel`
NotSel_noneOnly(s) == s = None

\* Python truthiness of `not sel`
NotSel(s) == s = None \/ s = ""

InitClips == {EmptyClip, UniClip("old"), UniClip(""), AnsiClip("bytes:bad"),
              ImageClip}
\* what the target application puts on the clipboard when it copies
AppSelections == {"text", "empty", "image", "none"}
Payload(a) ==
  CASE a = "text" -> UniClip("Hello World")
    [] a = "empty" -> UniClip("")
    [] OTHER -> ImageClip
\* what another application may put on the clipboard
OtherPayloads == {UniClip("other")}

(* ------------------------------- focus -------------------------------- *)
FocusStates == {[fg |-> 0, tidOK |-> TRUE, ctl |-> 0],
                [fg |-> 100, tidOK |-> FALSE, ctl |-> 200],
                [fg |-> 100, tidOK |-> TRUE, ctl |-> 0],
                [fg |-> 100, tidOK |-> TRUE, ctl |-> 200]}

FocusedHwndAndClass_noChecks(f) ==
  [fg |-> f.fg, focus |-> f.ctl, cls |-> "Edit"]

\* _focused_hwnd_and_class: <<hwnd_fg, hwnd_focus, cls>>
FocusedHwndAndClass(f) ==
  IF f.fg = NoHwnd THEN [fg |-> NoHwnd, focus |-> NoHwnd, cls |-> None]
  ELSE IF ~f.tidOK THEN [fg |-> f.fg, focus |-> NoHwnd, cls |-> None]
  ELSE [fg |-> f.fg, focus |-> f.ctl,
        cls |-> IF f.ctl # NoHwnd THEN "Edit" ELSE None]

(* ------------------------------ timing --------------------------------- *)
\* Strategy B polling for 40% or for all of the budget
WindowB_short(m) == (m * 4) \div 10
WindowB_full(m) == m

\* a Strategy A that does not wait for its copy command to take effect
WindowA_none(m) == 0

\* (max_wait_ms / 1000.0) * 0.4 and * 0.6
WindowA(m) == (m * 4) \div 10
WindowB(m) == (m * 6) \div 10

\* a comparison that also fires on an unchanged sequence number
SeqChanged_orEqual(s, before) == s >= before

\* GetClipboardSequenceNumber() != seq_before
SeqChanged(s, before) == s # before

(* ------------------------------ hotkeys -------------------------------- *)
MOD_ALT == 1
MOD_CONTROL == 2
MOD_SHIFT == 4
MOD_WIN == 8
MOD_NOREPEAT == 16384
VK_Z == 90
VK_SPACE == 32
VK_OEM_3 == 192
VK_M == 77
ChatHotkeyId == 1002
NoId == 0

\* the fourth label is "Ctrl+Shift+" followed by the grave accent key
HOTKEY_OPTIONS ==
  << [label |-> "Ctrl+Shift+Z", mods |-> MOD_CONTROL + MOD_SHIFT, vk |-> VK_Z],
     [label |-> "Ctrl+Alt+Shift+Z",
      mods |-> MOD_CONTROL + MOD_ALT + MOD_SHIFT, vk |-> VK_Z],
     [label |-> "Ctrl+Alt+Z", mods |-> MOD_CONTROL + MOD_ALT, vk |-> VK_Z],
     [label |-> "Ctrl+Shift+Grave", mods |-> MOD_CONTROL + MOD_SHIFT,
      vk |-> VK_OEM_3],
     [label |-> "Ctrl+Shift+Space", mods |-> MOD_CONTROL + MOD_SHIFT,
      vk |-> VK_SPACE] >>

\* the key combination a RegisterHotKey call names: MOD_NOREPEAT is a flag
\* of the registration, not part of the combination
Combo(fsModifiers, vk) == <<fsModifiers % MOD_NOREPEAT, vk>>

\* user32.RegisterHotKey succeeds unless the combination is already taken
RegisterOK(table, fsModifiers, vk) ==
  ~\E h \in table : h.combo = Combo(fsModifiers, vk)

\* a registration with hWnd NULL belongs to the thread that made the call
HotkeyEntry(owner, id, fsModifiers, vk) ==
  [owner |-> owner, id |-> id, combo |-> Combo(fsModifiers, vk)]

\* the threads of the process that call RegisterHotKey / UnregisterHotKey
Threads == {"HotkeyThread", "TrayThread"}

\* user32.UnregisterHotKey(None, id): removes the calling thread's binding
\* with that id; fails, changing nothing, when that thread has none
UnregisterHotKey(table, thread, id) ==
  {h \in table : ~(h.owner = thread /\ h.id = id)}

\* the bindings the process holds
OwnBindings(table) == {h \in table : h.owner \in Threads}

\* enumerate(hotkey_options) without start=1
CandidateId_fromZero(position) == position - 1

\* enumerate(hotkey_options, start=1): the id of the candidate at a position
CandidateId(position) == position

\* the hotkeys other applications hold when they own the candidates in S
OthersOwning(S) ==
  {HotkeyEntry("other", NoId, HOTKEY_OPTIONS[i].mods, HOTKEY_OPTIONS[i].vk) :
     i \in S}

VARIABLES
  phys,          \* keys the user physically holds
  os,            \* key state tracked by the OS (GetAsyncKeyState)
  clip,          \* clipboard content
  clipSeq,       \* clipboard sequence number
  focus,         \* foreground window / focused control
  appSel,        \* what the target application copies, "none" if nothing
  appHung,       \* the focused control does not answer WM_COPY in 300 ms
  pendingCopy,   \* the application has a copy request it has not served yet
  pc,            \* position of the UI thread in _on_hotkey / the attempt
  maxWait,       \* max_wait_ms
  now,           \* time elapsed since the attempt was entered
  ks, seq_before, original, hwnd_focus, changed, lifted, liftIdx,
  ctrl_was_down, deadline, sel, result,
  asleep,        \* the attempt is inside the time.sleep(0.02) of a poll
  events,        \* key events passed to sendinput_key, in order
  clipAtStart,   \* clipboard content when seq_before was read
  clipAtRead,    \* clipboard content when original was read
  selRead,       \* what the get_clipboard_text after detection returned
  readsAfter,    \* number of clipboard reads after detection
  sends,         \* number of WM_COPY messages sent
  pollsA,        \* number of sequence-number checks by Strategy A's poll
  changedByA,    \* Strategy A's poll observed the change
  bStart,        \* time at which Strategy B's poll started, -1 before
  pollTime,      \* time spent inside the two polling loops
  interfered,    \* number of clipboard writes by other applications
  keyEvents,     \* number of physical key events during the cycle
  everHeld,      \* some key was physically down at some time in the attempt
  openFails,     \* number of failed clipboard opens
  changeAt,      \* time of the first clipboard change since seq_before was
                 \* read, -1 while there is none
  injectFails,   \* number of SendInput calls the OS rejected
  rejectable,    \* number of SendInput calls the OS is going to reject
  copyFails,     \* SendMessageTimeoutW fails at once when asked to WM_COPY
  restoreCalled, \* _on_hotkey called set_clipboard_text
  restoreLanded, \* ... and the write reached the clipboard
  popups,        \* number of popups shown
  llmCalls,      \* number of core.ask_llm calls made by _on_hotkey
  liveDown,      \* keys that is_key_down reported down in Strategy B
  hotkeys,       \* the OS table of registered hotkeys
  hpc,           \* position of the hotkey thread
  regIdx,        \* i of the loop in register_first_available
  regAttempts,   \* RegisterHotKey calls of that loop: <<id, succeeded>>
  regRet,        \* what register_first_available returned or raised
  hotkey_id, hotkey_label, hotkey_enabled,
  ownedAtStart,  \* candidates already taken when the registration began
  hkChanges,     \* hotkeys taken or released by other applications since
  tpc,           \* position of the tray thread
  toggles,       \* number of tray menu commands so far
  reissued,      \* ids under which RegisterHotKey was called while the
                 \* process still held a binding with that id
  clipHolder,    \* who has the clipboard open: "none", "app" or "other"
  cpc,           \* position inside a clipboard helper call
  ccall,         \* the helper called and its argument
  ctext,         \* text of get_clipboard_text
  cret,          \* what the last helper call returned
  opens, closes, \* OpenClipboard / CloseClipboard calls that succeeded
  apiFails,      \* clipboard API calls that raised
  clipCalls,     \* helper calls made
  otherOpens,    \* times another application opened the clipboard
  clipBefore,    \* clipboard content when the helper was called
  apiTrace,      \* the clipboard API calls of the current helper call:
                 \* <<function, "ok" or "raised">>
  lpc,           \* position inside explain_selection / chat
  lcall,         \* the LLM helper called
  apiKey,        \* what settings.get_api_key() returns
  settingsJson,  \* what %APPDATA%\ClipLLM\settings.json holds
  httpLog,       \* the POSTs issued: <<request shape, outcome>>
  lret,          \* what the helper returned or raised
  tasks,         \* App.tasks, the queue drained by the UI thread
  upc,           \* what the UI thread is doing: "idle" in the main loop,
                 \* "drain" in the loop of _drain_tasks, inside the
                 \* "attempt" or inside "ask_llm" of _on_hotkey
  win,           \* ChatWindow.win: "none", "visible" or "withdrawn"
  sending, prev_response_id,
  wpc,           \* position of the chat worker thread, "none" without one
  afterQueue,    \* Tk `after` callbacks waiting for the UI thread
  llmBy,         \* <<LLM helper, thread that called it>>
  uiTouched,     \* <<thread, Tk object it created, changed or scheduled on>>
  uiEvents,      \* hotkey messages, tray clicks and chat window events
  drainScheduled, \* an `after` callback for _drain_tasks is pending
  attemptsStarted, \* capture attempts entered by _on_hotkey
  cyclesEnded,   \* _on_hotkey calls that returned
  enqueued,      \* every task ever put on App.tasks, in order
  executed,      \* every task _drain_tasks called, in order, and whether
                 \* the call raised
  lastMsg,       \* the last WM_HOTKEY message _hotkey_loop handled
  afterClose,    \* the chat window was closed and no message sent since
  appended,      \* who-tags of the lines _append put on the transcript
  workersStarted, \* _send_worker threads started
  entersIgnored, \* times _on_enter returned at its first line
  logFile,       \* chat_log.md: the chunks written to it, in file order
  logLock,       \* SessionLogger._lock: "free" or the thread holding it
  lw,            \* per thread: its SessionLogger call and position in it
  logCallsMade,  \* every SessionLogger call made: thread, number, method
                 \* and argument
  keyringLoaded, \* `import keyring` succeeded
  credStore,     \* the Credential Manager entry ClipLLM/api_key, or None
  secretFile,    \* secret.bin: "absent" or the DPAPI blob it holds
  kpc,           \* position inside set_api_key / get_api_key /
                 \* delete_api_key
  kcall,         \* the key function called and its argument
  credFails,     \* keyring calls that raised
  keyOps,        \* the key calls that returned: <<function, argument or
                 \* return value>>
  fpc,           \* position inside focused_info_for_log
  focusLog       \* what each focus inspection met and returned

envKeys == <<phys, os>>
envClip == <<clip, clipSeq>>
envApp == <<focus, appSel, appHung>>
locals == <<ks, seq_before, original, hwnd_focus, changed, lifted, liftIdx,
            ctrl_was_down, deadline, asleep, sel, result>>
histNoLive == <<clipAtStart, clipAtRead, selRead, readsAfter, sends, pollsA,
               changedByA, bStart,
          pollTime, restoreCalled, restoreLanded, popups, llmCalls>>
hist == <<histNoLive, liveDown>>
envHist == <<interfered, keyEvents, everHeld>>
envFaults == <<rejectable, copyFails>>
envInput == <<injectFails, envFaults>>
capVars == <<phys, os, clip, clipSeq, focus, appSel, appHung, pendingCopy, pc,
             maxWait, now, locals, events, hist, envHist, openFails,
             changeAt, envInput>>
hkVars == <<tpc, toggles, reissued, hotkeys, hpc, regIdx, regAttempts, regRet, hotkey_id,
            hotkey_label, hotkey_enabled, ownedAtStart, hkChanges>>
ccVars == <<clipHolder, cpc, ccall, ctext, cret, opens, closes, apiFails,
            clipCalls, otherOpens, clipBefore, apiTrace>>
\* the capture variables a clipboard helper call leaves alone
capNoClip == <<phys, os, focus, appSel, appHung, pendingCopy, pc, maxWait,
               now, locals, events, hist, envHist, openFails,
               changeAt, envInput>>
\* what the capture actions and what the hotkey actions leave alone
llmVars == <<lpc, lcall, apiKey, settingsJson, httpLog, lret>>
uiHist == <<attemptsStarted, cyclesEnded, enqueued, executed, lastMsg,
            afterClose,
            appended, workersStarted, entersIgnored>>
uiVars == <<tasks, upc, drainScheduled, win, sending, prev_response_id, wpc,
            afterQueue, uiHist, llmBy, uiTouched, uiEvents>>
slogVars == <<logFile, logLock, lw, logCallsMade>>
keyVars == <<keyringLoaded, credStore, secretFile, kpc, kcall, credFails,
             keyOps>>
focVars == <<fpc, focusLog>>
notCap == <<hkVars, ccVars, llmVars, uiVars, slogVars, keyVars, focVars>>
notHk == <<capVars, ccVars, llmVars, uiVars, slogVars, keyVars, focVars>>
notClip == <<capNoClip, hkVars, llmVars, uiVars, slogVars, keyVars, focVars>>
notLlm == <<capVars, hkVars, ccVars, uiVars, slogVars, keyVars, focVars>>
notLlmSlog == <<capVars, hkVars, ccVars, uiVars, keyVars, focVars>>
notUi == <<capVars, hkVars, ccVars, llmVars, slogVars, keyVars, focVars>>
notSlog == <<capVars, hkVars, ccVars, llmVars, uiVars, keyVars, focVars>>
notKey == <<capVars, hkVars, ccVars, llmVars, uiVars, slogVars, focVars>>
\* what a focus inspection leaves alone
notFoc == <<hkVars, ccVars, llmVars, uiVars, slogVars, keyVars>>
vars == <<capVars, hkVars, ccVars, llmVars, uiVars, slogVars, keyVars,
          focVars>>

(* ------------------------------- Init ---------------------------------- *)
\* The hotkey has fired and _on_hotkey is about to run on the UI thread.
\* Locals of the attempt and the bookkeeping start blank.
InitAttempt ==
  /\ pc = "enter"
  /\ maxWait \in Budgets
  /\ now = 0
  /\ ks = [k \in Keys |-> FALSE]
  /\ seq_before = 0
  /\ original = None
  /\ hwnd_focus = NoHwnd
  /\ changed = FALSE
  /\ lifted = <<>>
  /\ liftIdx = 1
  /\ ctrl_was_down = FALSE
  /\ deadline = 0
  /\ asleep = FALSE
  /\ sel = None
  /\ result = <<None, None>>
  /\ events = <<>>
  /\ clipAtStart = clip
  /\ clipAtRead = clip
  /\ selRead = None
  /\ readsAfter = 0
  /\ sends = 0
  /\ pollsA = 0
  /\ changedByA = FALSE
  /\ bStart = -1
  /\ pollTime = 0
  /\ interfered = 0
  /\ keyEvents = 0
  /\ everHeld = (\E k \in Keys : phys[k])
  /\ openFails = 0
  /\ changeAt = -1
  /\ injectFails = 0
  /\ restoreCalled = FALSE
  /\ restoreLanded = FALSE
  /\ popups = 0
  /\ llmCalls = 0
  /\ liveDown = {}

\* no hotkey cycle in progress
InitNoCycle ==
  /\ phys = [k \in Keys |-> FALSE]
  /\ os = phys
  /\ clip = EmptyClip
  /\ clipSeq = 1
  /\ focus = [fg |-> 0, tidOK |-> TRUE, ctl |-> 0]
  /\ appSel = "none"
  /\ appHung = FALSE
  /\ pendingCopy = FALSE
  /\ rejectable = 0
  /\ copyFails = FALSE
  /\ InitAttempt

\* the clipboard helpers before any call
InitClipCall ==
  /\ cpc = "idle"
  /\ ccall = [fn |-> "get", text |-> None]
  /\ ctext = None
  /\ cret = [kind |-> "none", value |-> None]
  /\ opens = 0
  /\ closes = 0
  /\ apiFails = 0
  /\ clipCalls = 0
  /\ otherOpens = 0
  /\ clipBefore = EmptyClip
  /\ apiTrace = <<>>

\* `if not key` in explain_selection and chat
NoKey(k) == k = None \/ k = ""

NoKeyMessage == "No API key set."
LlmErrorPrefix == "LLM error:"

\* what get_api_key can return
ApiKeys == {None, "", "sk-key"}

\* settings.json: absent, not JSON, a JSON object without or with a
\* chat_model entry, or a non-empty JSON array
SettingsFiles == {"missing", "corrupt", "object", "objectChatModel", "array"}

\* load_settings() returns {} when the file is absent or cannot be parsed,
\* and otherwise whatever json.load produced
LoadSettings(f) == IF f = "array" THEN "list" ELSE "dict"

\* cfg.get(...) in _load_config needs a dict
LoadConfigRaises(f) == LoadSettings(f) # "dict"

\* cfg.get("chat_model") or os.getenv(...) or DEFAULT_CHAT_MODEL
ChatModel(f) ==
  IF f = "objectChatModel" THEN "llama-3" ELSE "gpt-5-2025-08-07"

\* "gpt-5" in (chat_model or "")
IsGpt5(model) == model \in {"gpt-5-2025-08-07", "gpt-5-nano-2025-08-07"}

\* the request shapes: /responses with web_search, /chat/completions with
\* max_completion_tokens, max_output_tokens, max_tokens, and /responses
\* with content type 'text' and 'input_text'
Shapes == {"gpt5", "cc1", "cc2", "cc3", "resp1", "resp2"}

\* what a POST can meet: a reply; HTTP >= 400 naming an unsupported token
\* parameter; HTTP 404/405; another HTTP error; an exception of requests;
\* HTTP 400 "Invalid value: 'text'"; HTTP 200 with a body of no known shape
Outcomes == {"ok", "paramError", "endpointError", "httpError",
             "networkError", "invalidText", "badFormat"}

\* the threads that may share one SessionLogger
LogThreads == {"ui", "worker"}

\* the public methods that write
LogFns == {"log_user", "log_assistant", "end_session"}

\* what a caller passes as text: None or a string, given as its characters
LogArgs == {[isNone |-> TRUE, s |-> <<>>],
            [isNone |-> FALSE, s |-> <<"a">>],
            [isNone |-> FALSE, s |-> <<"LF", "b", "CR", "LF">>]}

\* the divider __init__ writes when it opens the file
HeaderChunk == [by |-> "init", n |-> 0, part |-> "header", s |-> <<>>]

\* SessionLogger.__init__: file opened for append, divider written, lock
\* free, no call in progress
InitNoSlog ==
  /\ logFile = <<HeaderChunk>>
  /\ logLock = "free"
  /\ lw = [t \in LogThreads |->
            [pc |-> "idle", fn |-> "log_user",
             arg |-> [isNone |-> TRUE, s |-> <<>>], n |-> 0,
             pending |-> <<>>]]
  /\ logCallsMade = {}

\* no focus inspection in progress
InitNoFocus ==
  /\ fpc = "idle"
  /\ focusLog = <<>>

\* the keys the Options dialog can save (on_save strips and rejects "")
KeyValues == {"sk-old", "sk-new"}

\* no key function in progress, nothing stored
InitNoKey ==
  /\ keyringLoaded = TRUE
  /\ credStore = None
  /\ secretFile = "absent"
  /\ kpc = "idle"
  /\ kcall = [fn |-> "get", key |-> None]
  /\ credFails = 0
  /\ keyOps = <<>>

\* App.__init__: empty task queue, _drain_tasks scheduled,
\* ChatWindow.__init__
InitNoUi ==
  /\ tasks = <<>>
  /\ upc = "idle"
  /\ win = "none"
  /\ sending = FALSE
  /\ prev_response_id = None
  /\ wpc = "none"
  /\ afterQueue = <<>>
  /\ llmBy = {}
  /\ uiTouched = {}
  /\ uiEvents = 0
  /\ drainScheduled = TRUE
  /\ attemptsStarted = 0
  /\ cyclesEnded = 0
  /\ enqueued = <<>>
  /\ executed = <<>>
  /\ afterClose = FALSE
  /\ lastMsg = [wParam |-> NoId, enabled |-> FALSE, id |-> NoId, put |-> <<>>]
  /\ appended = <<>>
  /\ workersStarted = 0
  /\ entersIgnored = 0

\* no LLM helper call in progress
InitNoLlm ==
  /\ lpc = "idle"
  /\ lcall = [fn |-> "explain", session |-> "none"]
  /\ apiKey = None
  /\ settingsJson = "missing"
  /\ httpLog = <<>>
  /\ lret = [kind |-> "none", text |-> None]

\* no clipboard helper call in progress, nobody holds the clipboard
InitNoClipCall ==
  /\ clipHolder = "none"
  /\ InitClipCall

\* the hotkey thread after a startup in which the first candidate was free
InitRegistered ==
  /\ hotkeys = {HotkeyEntry("HotkeyThread", 1,
                            HOTKEY_OPTIONS[1].mods + MOD_NOREPEAT,
                            HOTKEY_OPTIONS[1].vk),
                HotkeyEntry("HotkeyThread", ChatHotkeyId,
                            MOD_CONTROL + MOD_ALT + MOD_NOREPEAT, VK_M)}
  /\ hpc = "loop"
  /\ regIdx = 1
  /\ regAttempts = <<<<1, TRUE>>>>
  /\ regRet = [kind |-> "ok", id |-> 1, label |-> HOTKEY_OPTIONS[1].label]
  /\ hotkey_id = 1
  /\ hotkey_label = HOTKEY_OPTIONS[1].label
  /\ hotkey_enabled = TRUE
  /\ ownedAtStart = {}
  /\ hkChanges = 0
  /\ tpc = "idle"
  /\ toggles = 0
  /\ reissued = {}

\* App.__init__, before the hotkey thread starts; other applications own
\* any of the candidate combinations and perhaps the chat combination
InitHotkey ==
  /\ ownedAtStart \in SUBSET (1..Len(HOTKEY_OPTIONS))
  /\ \E chatTaken \in BOOLEAN :
       hotkeys = OthersOwning(ownedAtStart) \cup
                 (IF chatTaken
                    THEN {HotkeyEntry("other", NoId, MOD_CONTROL + MOD_ALT,
                 VK_M)}
                    ELSE {})
  /\ hpc = "start"
  /\ regIdx = 1
  /\ regAttempts = <<>>
  /\ regRet = [kind |-> "none", id |-> NoId, label |-> None]
  /\ hotkey_id = NoId
  /\ hotkey_label = None
  /\ hotkey_enabled = TRUE
  /\ hkChanges = 0
  /\ tpc = "idle"
  /\ toggles = 0
  /\ reissued = {}
  /\ InitNoCycle
  /\ InitNoClipCall
  /\ InitNoLlm
  /\ InitNoUi
  /\ InitNoSlog
  /\ InitNoKey
  /\ InitNoFocus

\* keys held when the task runs: none, or what is left of the hotkey chord
HeldAtStart == {{}, {"CTRL", "SHIFT"}, {"CTRL", "ALT", "SHIFT"}}

\* Clipboard view: every clipboard content, selection and focus state, few
\* key states.
Init ==
  /\ \E h \in HeldAtStart : phys = [k \in Keys |-> k \in h]
  /\ os = phys
  /\ clip \in InitClips
  /\ clipSeq = 1
  /\ focus \in FocusStates
  /\ appSel \in AppSelections
  /\ appHung \in BOOLEAN
  /\ appHung => FocusedHwndAndClass(focus).focus # NoHwnd
  /\ pendingCopy = FALSE
  /\ rejectable = 0
  /\ copyFails = FALSE
  /\ InitAttempt
  /\ InitRegistered
  /\ InitNoClipCall
  /\ InitNoLlm
  /\ InitNoUi
  /\ InitNoSlog
  /\ InitNoKey
  /\ InitNoFocus

\* Keyboard view: every key state, few clipboard contents.
InitKeys ==
  /\ phys \in [Keys -> BOOLEAN]
  /\ os = phys
  /\ clip = UniClip("old")
  /\ clipSeq = 1
  /\ focus \in FocusStates
  /\ appSel \in {"text", "none"}
  /\ appHung \in BOOLEAN
  /\ appHung => FocusedHwndAndClass(focus).focus # NoHwnd
  /\ pendingCopy = FALSE
  /\ rejectable = 0
  /\ copyFails = FALSE
  /\ InitAttempt
  /\ InitRegistered
  /\ InitNoClipCall
  /\ InitNoLlm
  /\ InitNoUi
  /\ InitNoSlog
  /\ InitNoKey
  /\ InitNoFocus

\* Fault view: the OS may reject injected key events and the copy command.
InitFaults ==
  /\ \E h \in HeldAtStart : phys = [k \in Keys |-> k \in h]
  /\ os = phys
  /\ clip = UniClip("old")
  /\ clipSeq = 1
  /\ focus \in FocusStates
  /\ appSel \in {"text", "none"}
  /\ appHung \in BOOLEAN
  /\ appHung => FocusedHwndAndClass(focus).focus # NoHwnd
  /\ pendingCopy = FALSE
  /\ rejectable \in 0..MaxInjectFails
  /\ copyFails \in BOOLEAN
  /\ appHung => ~copyFails
  /\ InitAttempt
  /\ InitRegistered
  /\ InitNoClipCall
  /\ InitNoLlm
  /\ InitNoUi
  /\ InitNoSlog
  /\ InitNoKey
  /\ InitNoFocus

(* --------------------------- environment ------------------------------ *)
Running == pc \notin {"enter", "done"}

\* the user presses or releases a key
UserKey ==
  /\ Running
  /\ keyEvents < MaxKeyEvents
  /\ \E k \in Keys :
       /\ phys' = [phys EXCEPT ![k] = ~phys[k]]
       /\ os' = [os EXCEPT ![k] = ~phys[k]]
  /\ keyEvents' = keyEvents + 1
  /\ everHeld' = TRUE
  /\ interfered' = interfered
  /\ UNCHANGED <<envClip, envApp, pendingCopy, pc, maxWait, now, locals,
                 events, hist, openFails, changeAt, envInput>>
  /\ UNCHANGED notCap

\* the target application serves a copy request: its selection goes to the
\* clipboard and the OS increments the sequence number
AppCopies ==
  /\ Running
  /\ pendingCopy
  /\ pendingCopy' = FALSE
  /\ clip' = Payload(appSel)
  /\ clipSeq' = clipSeq + 1
  /\ changeAt' = IF changeAt < 0 THEN now ELSE changeAt
  /\ UNCHANGED <<envKeys, envApp, pc, maxWait, now, locals, events, hist,
                 envHist, openFails, envInput>>
  /\ UNCHANGED notCap

\* another application writes the clipboard
OtherAppWrites ==
  /\ Running
  /\ interfered < MaxOtherWrites
  /\ \E c \in OtherPayloads : clip' = c
  /\ clipSeq' = clipSeq + 1
  /\ interfered' = interfered + 1
  /\ changeAt' = IF changeAt < 0 THEN now ELSE changeAt
  /\ UNCHANGED <<envKeys, envApp, pendingCopy, pc, maxWait, now, locals,
                 events, hist, keyEvents, everHeld, openFails, envInput>>
  /\ UNCHANGED notCap

(* ------------------- sendinput_key and its effects --------------------- *)
\* OS key state after an injected event
Injected(o, vk, down) == IF vk \in Keys THEN [o EXCEPT ![vk] = down] ELSE o

\* the foreground application takes an injected C key-down as "copy" when
\* Ctrl is down and no other modifier is
IsCopyChord(o) ==
  /\ o["CTRL"]
  /\ \A i \in 1..Len(ModKeys) : ~o[ModKeys[i]]

Ev(vk, down) == <<vk, IF down THEN "down" ELSE "up">>

(* ----------------- attempt_copy_via_wmcopy_and_sendinput --------------- *)
\* focused_info_for_log(), the ks snapshot and seq_before
Enter ==
  /\ pc = "enter"
  /\ ks' = [k \in Keys |-> os[k]]
  /\ seq_before' = clipSeq
  /\ clipAtStart' = clip
  /\ pc' = "readOriginal"
  /\ UNCHANGED <<envKeys, envClip, envApp, pendingCopy, maxWait, now,
                 clipAtRead,
                 original, hwnd_focus, changed, lifted, liftIdx,
                 ctrl_was_down, deadline, asleep, sel, result, events, selRead,
                 readsAfter, sends, pollsA, changedByA, bStart, pollTime,
                 restoreCalled, restoreLanded, popups, llmCalls, liveDown,
                 envHist, openFails, changeAt, envInput>>
  /\ UNCHANGED notCap

\* original = get_clipboard_text()
ReadOriginal ==
  /\ pc = "readOriginal"
  /\ \E opened \in BOOLEAN :
       /\ opened \/ openFails < MaxOpenFails
       /\ original' = GetClipboardText(clip, opened)
       /\ openFails' = IF opened THEN openFails ELSE openFails + 1
  /\ clipAtRead' = clip
  /\ pc' = "readFocus"
  /\ UNCHANGED <<envKeys, envClip, envApp, pendingCopy, maxWait, now, ks,
                 seq_before, hwnd_focus, changed, lifted, liftIdx,
                 ctrl_was_down, deadline, asleep, sel, result, events,
                 clipAtStart,
                 selRead, readsAfter, sends, pollsA, changedByA, bStart,
                 pollTime, restoreCalled, restoreLanded, popups, llmCalls,
                 liveDown, envHist, changeAt, envInput>>
  /\ UNCHANGED notCap

\* Strategy B entered whatever Strategy A found
AfterStrategyA_always(wasChanged) == "lift"

\* `if not changed:` guards Strategy B
AfterStrategyA(wasChanged) == IF wasChanged THEN "return" ELSE "lift"

\* _, hwnd_focus, _ = _focused_hwnd_and_class(); changed = False
ReadFocus ==
  /\ pc = "readFocus"
  /\ hwnd_focus' = FocusedHwndAndClass(focus).focus
  /\ changed' = FALSE
  /\ pc' = IF hwnd_focus' # NoHwnd THEN "sendWmCopy" ELSE AfterStrategyA(FALSE)
  /\ UNCHANGED <<envKeys, envClip, envApp, pendingCopy, maxWait, now, ks,
                 seq_before, original, lifted, liftIdx, ctrl_was_down,
                 deadline, asleep, sel, result, events, hist, envHist,
                 openFails,
                 changeAt,
                 envInput>>
  /\ UNCHANGED notCap

\* what send_wm_copy returns, bool(ok): FALSE when SendMessageTimeoutW
\* timed out or failed. The attempt drops the value. A control that timed
\* out may still serve the message later; one that refused it never does.
SendWmCopyReturns == ~appHung /\ ~copyFails

\* io.send_wm_copy(hwnd_focus), then the deadline of Strategy A's poll.
\* A hung control makes SendMessageTimeoutW block for its 300 ms timeout.
SendWmCopy ==
  /\ pc = "sendWmCopy"
  /\ sends' = sends + 1
  /\ pendingCopy' = (pendingCopy \/ (~copyFails /\ appSel # "none"))
  /\ now' = now + (IF appHung THEN SendTimeout ELSE 0)
  /\ deadline' = now' + WindowA(maxWait)
  /\ pc' = "pollA"
  /\ UNCHANGED <<envKeys, envClip, envApp, maxWait, ks, seq_before, original,
                 hwnd_focus, changed, lifted, liftIdx, ctrl_was_down, asleep,
                 sel, result, events, clipAtStart, clipAtRead, selRead,
                 readsAfter, pollsA,
                 changedByA, bStart, pollTime, restoreCalled, restoreLanded,
                 popups, llmCalls, liveDown, envHist, openFails, changeAt,
                 envInput>>
  /\ UNCHANGED notCap

\* one turn of `while time.time() < deadline:` in Strategy A
PollA ==
  /\ pc = "pollA"
  /\ IF asleep
       THEN /\ now' = now + PollSleep
            /\ pollTime' = pollTime + PollSleep
            /\ asleep' = FALSE
            /\ UNCHANGED <<pollsA, changed, changedByA, pc>>
       ELSE IF now < deadline
         THEN /\ pollsA' = pollsA + 1
              /\ IF SeqChanged(clipSeq, seq_before)
                   THEN /\ changed' = TRUE
                        /\ changedByA' = TRUE
                        /\ pc' = AfterStrategyA(TRUE)
                        /\ UNCHANGED <<now, pollTime, asleep>>
                   ELSE /\ asleep' = TRUE
                        /\ UNCHANGED <<changed, changedByA, pc, now,
                                       pollTime>>
         ELSE /\ pc' = AfterStrategyA(changed)
              /\ UNCHANGED <<pollsA, changed, changedByA, now, pollTime,
                             asleep>>
  /\ UNCHANGED <<envKeys, envClip, envApp, pendingCopy, maxWait, ks,
                 seq_before, original, hwnd_focus, lifted, liftIdx,
                 ctrl_was_down, deadline, sel, result, events, clipAtStart,
                 clipAtRead,
                 selRead, readsAfter, sends, bStart, restoreCalled,
                 restoreLanded, popups, llmCalls, liveDown, envHist,
                 openFails, changeAt, envInput>>
  /\ UNCHANGED notCap

\* sendinput_key(vk, down) followed by time.sleep(d)
\* n = user32.SendInput(...): 1 when the event was inserted, 0 when the OS
\* rejected it
SendInputReturns == IF injectFails < rejectable THEN {0, 1} ELSE {1}

\* an attempt that gives up at the first rejected key event
AfterSendInput_giveUp(n, next) == IF n = 1 THEN next ELSE "return"

\* `if n != 1: _log.debug(...)`: sendinput_key returns to its caller
\* whatever n was
AfterSendInput(n, next) == next

\* io.sendinput_key(vk, down) and the sleep after it
Inject(vk, down, d, n) ==
  /\ events' = Append(events, Ev(vk, down))
  /\ os' = IF n = 1 THEN Injected(os, vk, down) ELSE os
  /\ injectFails' = IF n = 1 THEN injectFails ELSE injectFails + 1
  /\ now' = now + d

\* a lift loop that goes by the snapshot taken on entry
ShouldLift_fromSnapshot(o, vk) == ks[vk]

\* one turn of the loop over Shift, Alt, Left-Win, Right-Win:
\* `if io.is_key_down(vk)`
ShouldLift(o, vk) == o[vk]

Lift ==
  /\ pc = "lift"
  /\ LET vk == ModKeys[liftIdx] IN
       /\ liveDown' = IF os[vk] THEN liveDown \cup {vk} ELSE liveDown
       /\ LET next == IF liftIdx < Len(ModKeys) THEN pc ELSE "ctrlDown" IN
            IF ShouldLift(os, vk)
              THEN \E n \in SendInputReturns :
                     /\ Inject(vk, FALSE, LiftSleep, n)
                     /\ lifted' = Append(lifted, vk)
                     /\ pc' = AfterSendInput(n, next)
              ELSE /\ pc' = next
                   /\ UNCHANGED <<events, os, now, lifted, injectFails>>
  /\ liftIdx' = IF liftIdx < Len(ModKeys) THEN liftIdx + 1 ELSE 1
  /\ UNCHANGED <<phys, envClip, envApp, pendingCopy, maxWait, ks, seq_before,
                 original, hwnd_focus, changed, ctrl_was_down, deadline,
                 asleep, sel,
                 result, histNoLive, envHist, openFails, changeAt, envFaults>>
  /\ UNCHANGED notCap

\* a Strategy B that takes Ctrl to be up and always presses it itself
CtrlWasDown_assumeUp(o) == FALSE

\* ctrl_was_down = io.is_key_down(VK_CONTROL)
CtrlWasDown(o) == o["CTRL"]

\* ctrl_was_down = is_key_down(VK_CONTROL); Ctrl down unless it is down
CtrlDown ==
  /\ pc = "ctrlDown"
  /\ ctrl_was_down' = CtrlWasDown(os)
  /\ liveDown' = IF os["CTRL"] THEN liveDown \cup {"CTRL"} ELSE liveDown
  /\ IF ~ctrl_was_down'
       THEN \E n \in SendInputReturns :
              /\ Inject("CTRL", TRUE, CtrlSleep, n)
              /\ pc' = AfterSendInput(n, "cDown")
       ELSE /\ pc' = "cDown"
            /\ UNCHANGED <<events, os, now, injectFails>>
  /\ UNCHANGED <<phys, envClip, envApp, pendingCopy, maxWait, ks, seq_before,
                 original, hwnd_focus, changed, lifted, liftIdx, deadline,
                 asleep, sel,
                 result, histNoLive, envHist, openFails, changeAt, envFaults>>
  /\ UNCHANGED notCap

\* C key-down: the foreground application sees Ctrl+C if the chord is clean
CDown ==
  /\ pc = "cDown"
  /\ \E n \in SendInputReturns :
       /\ Inject("C", TRUE, CKeySleep, n)
       /\ pendingCopy' = (pendingCopy \/
                          (/\ n = 1
                           /\ IsCopyChord(os)
                           /\ focus.fg # NoHwnd
                           /\ appSel # "none"))
       /\ pc' = AfterSendInput(n, "cUp")
  /\ UNCHANGED <<phys, envClip, envApp, maxWait, locals, hist, envHist,
                 openFails, changeAt, envFaults>>
  /\ UNCHANGED notCap

CUp ==
  /\ pc = "cUp"
  /\ \E n \in SendInputReturns :
       /\ Inject("C", FALSE, CKeySleep, n)
       /\ pc' = AfterSendInput(n, "ctrlUp")
  /\ UNCHANGED <<phys, envClip, envApp, pendingCopy, maxWait, locals, hist,
                 envHist, openFails, changeAt, envFaults>>
  /\ UNCHANGED notCap

CtrlUp ==
  /\ pc = "ctrlUp"
  /\ \E n \in SendInputReturns :
       /\ Inject("CTRL", FALSE, CtrlSleep, n)
       /\ pc' = AfterSendInput(n, "ctrlRestore")
  /\ UNCHANGED <<phys, envClip, envApp, pendingCopy, maxWait, locals, hist,
                 envHist, openFails, changeAt, envFaults>>
  /\ UNCHANGED notCap

\* if ctrl_was_down: Ctrl down again
CtrlRestore ==
  /\ pc = "ctrlRestore"
  /\ IF ctrl_was_down
       THEN \E n \in SendInputReturns :
              /\ Inject("CTRL", TRUE, 0, n)
              /\ pc' = AfterSendInput(n, "restoreLifted")
       ELSE /\ pc' = "restoreLifted"
            /\ UNCHANGED <<events, os, now, injectFails>>
  /\ UNCHANGED <<phys, envClip, envApp, pendingCopy, maxWait, locals, hist,
                 envHist, openFails, changeAt, envFaults>>
  /\ UNCHANGED notCap

\* a restore loop that misses the first lifted key
ToRestore_skipFirst(l) == IF l = <<>> THEN l ELSE Tail(l)

\* the keys `for vk in lifted` walks over
ToRestore(l) == l

\* one turn of `for vk in lifted:`, and after the last one the deadline of
\* Strategy B's poll
RestoreLifted ==
  /\ pc = "restoreLifted"
  /\ IF liftIdx <= Len(ToRestore(lifted))
       THEN /\ \E n \in SendInputReturns :
                 /\ Inject(ToRestore(lifted)[liftIdx], TRUE, RestoreSleep, n)
                 /\ pc' = AfterSendInput(n, pc)
            /\ liftIdx' = liftIdx + 1
            /\ UNCHANGED <<deadline, bStart>>
       ELSE /\ deadline' = now + WindowB(maxWait)
            /\ bStart' = now
            /\ pc' = "pollB"
            /\ UNCHANGED <<events, os, now, liftIdx, injectFails>>
  /\ UNCHANGED <<phys, envClip, envApp, pendingCopy, maxWait, ks, seq_before,
                 original, hwnd_focus, changed, lifted, ctrl_was_down, asleep,
                 sel, result, clipAtStart, clipAtRead, selRead, readsAfter,
                 sends, pollsA,
                 changedByA, pollTime, restoreCalled, restoreLanded, popups,
                 llmCalls, liveDown,
                 envHist, openFails, changeAt, envFaults>>
  /\ UNCHANGED notCap

\* one turn of `while time.time() < deadline:` in Strategy B
PollB ==
  /\ pc = "pollB"
  /\ IF asleep
       THEN /\ now' = now + PollSleep
            /\ pollTime' = pollTime + PollSleep
            /\ asleep' = FALSE
            /\ UNCHANGED <<changed, pc>>
       ELSE IF now < deadline
         THEN IF SeqChanged(clipSeq, seq_before)
                THEN /\ changed' = TRUE
                     /\ pc' = "return"
                     /\ UNCHANGED <<now, pollTime, asleep>>
                ELSE /\ asleep' = TRUE
                     /\ UNCHANGED <<changed, pc, now, pollTime>>
         ELSE /\ pc' = "return"
              /\ UNCHANGED <<changed, now, pollTime, asleep>>
  /\ UNCHANGED <<envKeys, envClip, envApp, pendingCopy, maxWait, ks,
                 seq_before, original, hwnd_focus, lifted, liftIdx,
                 ctrl_was_down, deadline, sel, result, events, clipAtStart,
                 clipAtRead,
                 selRead, readsAfter, sends, pollsA, changedByA, bStart,
                 restoreCalled, restoreLanded, popups, llmCalls, liveDown,
                 envHist, openFails, changeAt, envInput>>
  /\ UNCHANGED notCap

\* an attempt that hands back the text it read after the copy as original
ResultFor_selAsOriginal(wasChanged, text, orig) ==
  IF ~wasChanged THEN <<None, orig>>
  ELSE IF NotSel(text) THEN <<None, text>>
  ELSE <<text, text>>

\* the pair returned for what the read after detection gave
ResultFor(wasChanged, text, orig) ==
  IF ~wasChanged THEN <<None, orig>>
  ELSE IF NotSel(text) THEN <<None, orig>>
  ELSE <<text, orig>>

\* `if not changed: return None, original`, else sel = get_clipboard_text()
\* and the two returns that follow it
Return ==
  /\ pc = "return"
  /\ IF ~changed
       THEN /\ result' = ResultFor(FALSE, None, original)
            /\ UNCHANGED <<sel, selRead, readsAfter, openFails>>
       ELSE \E opened \in BOOLEAN :
              /\ opened \/ openFails < MaxOpenFails
              /\ sel' = GetClipboardText(clip, opened)
              /\ selRead' = sel'
              /\ readsAfter' = readsAfter + 1
              /\ openFails' = IF opened THEN openFails ELSE openFails + 1
              /\ result' = ResultFor(TRUE, sel', original)
  /\ pc' = "returned"
  /\ UNCHANGED <<envKeys, envClip, envApp, pendingCopy, maxWait, now, ks,
                 seq_before, original, hwnd_focus, changed, lifted, liftIdx,
                 ctrl_was_down, deadline, asleep, events, clipAtStart,
                 clipAtRead,
                 sends, pollsA,
                 changedByA, bStart, pollTime, restoreCalled, restoreLanded,
                 popups, llmCalls, liveDown, envHist, changeAt, envInput>>
  /\ UNCHANGED notCap

(* --------------------------- App._on_hotkey ---------------------------- *)
\* sel, original = attempt(...); if not sel: return
\* _on_hotkey that asks and shows whatever the attempt returned
NoPopupFor_never(s) == FALSE

\* `if not sel: return` in _on_hotkey
NoPopupFor(s) == NotSel(s)

AfterAttempt ==
  /\ pc = "returned"
  /\ pc' = IF NoPopupFor(result[1]) THEN "done" ELSE "askLlm"
  /\ UNCHANGED <<envKeys, envClip, envApp, pendingCopy, maxWait, now, locals,
                 events, hist, envHist, openFails, changeAt, envInput>>
  /\ UNCHANGED notCap

\* answer = core.ask_llm(sel); self.popup_mgr.show("LLM reply", answer)
AskAndShow ==
  /\ pc = "askLlm"
  /\ llmCalls' = llmCalls + 1
  /\ popups' = popups + 1
  /\ pc' = "restoreClipboard"
  /\ UNCHANGED <<envKeys, envClip, envApp, pendingCopy, maxWait, now, locals,
                 events, clipAtStart, clipAtRead, selRead, readsAfter, sends,
                 pollsA,
                 changedByA, bStart, pollTime, restoreCalled, restoreLanded,
                 liveDown, envHist, openFails, changeAt, envInput>>
  /\ UNCHANGED notCap

\* the guard of the restore in _on_hotkey
ShouldRestore(orig) == orig # None

\* if original is not None: core.set_clipboard_text(original)
RestoreClipboard ==
  /\ pc = "restoreClipboard"
  /\ IF ShouldRestore(result[2])
       THEN \E opened \in BOOLEAN :
              /\ opened \/ openFails < MaxOpenFails
              /\ clip' = SetClipboardText(clip, result[2], opened)
              /\ clipSeq' = IF opened THEN clipSeq + 1 ELSE clipSeq
              /\ openFails' = IF opened THEN openFails ELSE openFails + 1
              /\ restoreCalled' = TRUE
              /\ restoreLanded' = opened
       ELSE UNCHANGED <<clip, clipSeq, openFails, restoreCalled, restoreLanded>>
  /\ pc' = "done"
  /\ UNCHANGED <<envKeys, envApp, pendingCopy, maxWait, now, locals, events,
                 clipAtStart, clipAtRead, selRead, readsAfter, sends, pollsA,
                 changedByA,
                 bStart, pollTime, popups, llmCalls, liveDown, envHist,
                 changeAt, envInput>>
  /\ UNCHANGED notCap

(* ----------------------- hotkey registration -------------------------- *)
\* where a thread is in _register_hotkey; the tray thread runs its menu
\* callbacks only after the hotkey thread reached its message loop
Pos(t) == IF t = "HotkeyThread" THEN hpc ELSE tpc

Goto(t, p) ==
  IF t = "HotkeyThread" THEN hpc' = p /\ UNCHANGED tpc
                        ELSE tpc' = p /\ UNCHANGED hpc

\* what follows _register_hotkey: the GetMessageW loop of _hotkey_loop, or
\* the return of _toggle_hotkey to the tray menu
AfterRegister(t) == IF t = "HotkeyThread" THEN "loop" ELSE "idle"

\* the candidates whose combination is taken in a table
TakenCandidates(table) ==
  {i \in 1..Len(HOTKEY_OPTIONS) :
     ~RegisterOK(table, HOTKEY_OPTIONS[i].mods, HOTKEY_OPTIONS[i].vk)}

\* ids among S under which the process holds a binding
StillHeld(table, S) == {i \in S : \E h \in OwnBindings(table) : h.id = i}

\* another application registers or releases one of the combinations
OtherAppHotkey ==
  /\ hpc \in {"start", "register", "assign", "registerChat"}
       \/ tpc \in {"register", "assign", "registerChat"}
  /\ hkChanges < MaxHotkeyChanges
  /\ \E i \in 1..Len(HOTKEY_OPTIONS) :
       LET e == HotkeyEntry("other", NoId, HOTKEY_OPTIONS[i].mods,
                            HOTKEY_OPTIONS[i].vk) IN
         \/ e \in hotkeys /\ hotkeys' = hotkeys \ {e}
         \/ RegisterOK(hotkeys, HOTKEY_OPTIONS[i].mods, HOTKEY_OPTIONS[i].vk)
              /\ hotkeys' = hotkeys \cup {e}
  /\ hkChanges' = hkChanges + 1
  /\ UNCHANGED <<hpc, regIdx, regAttempts, regRet, hotkey_id, hotkey_label,
                 hotkey_enabled, ownedAtStart, tpc, toggles, reissued>>
  /\ UNCHANGED notHk

\* _hotkey_loop calls _register_hotkey, which calls register_first_available
HotkeyLoopStart ==
  /\ hpc = "start"
  /\ regIdx' = 1
  /\ hpc' = "register"
  /\ UNCHANGED <<hotkeys, regAttempts, regRet, hotkey_id, hotkey_label,
                 hotkey_enabled, ownedAtStart, hkChanges, tpc, toggles,
                 reissued>>
  /\ UNCHANGED notHk

\* one turn of the loop of register_first_available; after the last
\* candidate failed, raise SystemExit
TryCandidate ==
  \E t \in Threads :
    /\ Pos(t) = "register"
    /\ LET c == HOTKEY_OPTIONS[regIdx]
           i == CandidateId(regIdx)
           ok == RegisterOK(hotkeys, c.mods + MOD_NOREPEAT, c.vk) IN
         /\ regAttempts' = Append(regAttempts, <<i, ok>>)
         /\ reissued' = reissued \cup StillHeld(hotkeys, {i})
         /\ IF ok
              THEN /\ hotkeys' = hotkeys \cup
                         {HotkeyEntry(t, i, c.mods + MOD_NOREPEAT, c.vk)}
                   /\ regRet' = [kind |-> "ok", id |-> i, label |-> c.label]
                   /\ Goto(t, "assign")
                   /\ UNCHANGED regIdx
              ELSE /\ UNCHANGED hotkeys
                   /\ IF regIdx < Len(HOTKEY_OPTIONS)
                        THEN /\ regIdx' = regIdx + 1
                             /\ UNCHANGED <<regRet, hpc, tpc>>
                        ELSE /\ regRet' = [kind |-> "SystemExit", id |-> NoId,
                                           label |-> None]
                             /\ Goto(t, "assign")
                             /\ UNCHANGED regIdx
    /\ UNCHANGED <<hotkey_id, hotkey_label, hotkey_enabled, ownedAtStart,
                   hkChanges, toggles>>
    /\ UNCHANGED notHk

\* where the thread goes after `except SystemExit`
AfterSystemExit == "registerChat"

\* _register_hotkey: the assignment, or the `except SystemExit` handler
AssignHotkey ==
  \E t \in Threads :
    /\ Pos(t) = "assign"
    /\ IF regRet.kind = "ok"
         THEN /\ hotkey_id' = regRet.id
              /\ hotkey_label' = regRet.label
              /\ Goto(t, "registerChat")
         ELSE /\ hotkey_id' = NoId
              /\ hotkey_label' = "(none)"
              /\ Goto(t, AfterSystemExit)
    /\ UNCHANGED <<hotkeys, regIdx, regAttempts, regRet, hotkey_enabled,
                   ownedAtStart, hkChanges, toggles, reissued>>
    /\ UNCHANGED notHk

\* _register_hotkey: the chat hotkey; then _hotkey_loop enters its
\* GetMessageW loop, or _toggle_hotkey returns
RegisterChat ==
  \E t \in Threads :
    /\ Pos(t) = "registerChat"
    /\ reissued' = reissued \cup StillHeld(hotkeys, {ChatHotkeyId})
    /\ IF RegisterOK(hotkeys, MOD_CONTROL + MOD_ALT + MOD_NOREPEAT, VK_M)
         THEN hotkeys' = hotkeys \cup
                {HotkeyEntry(t, ChatHotkeyId,
                             MOD_CONTROL + MOD_ALT + MOD_NOREPEAT, VK_M)}
         ELSE UNCHANGED hotkeys
    /\ Goto(t, AfterRegister(t))
    /\ UNCHANGED <<regIdx, regAttempts, regRet, hotkey_id, hotkey_label,
                   hotkey_enabled, ownedAtStart, hkChanges, toggles>>
    /\ UNCHANGED notHk

\* the tray menu item "Enable Hotkey": _toggle_hotkey on the tray thread.
\* Re-enabling with no hotkey_id goes through _register_hotkey on this
\* thread; disabling unregisters hotkey_id, and only that id.
ToggleHotkey ==
  /\ hpc = "loop" /\ tpc = "idle"
  /\ toggles < MaxToggles
  /\ toggles' = toggles + 1
  /\ hotkey_enabled' = ~hotkey_enabled
  /\ IF ~hotkey_enabled /\ hotkey_id = NoId
       THEN /\ tpc' = "register"
            /\ regIdx' = 1
            /\ regAttempts' = <<>>
            /\ regRet' = [kind |-> "none", id |-> NoId, label |-> None]
            /\ ownedAtStart' = TakenCandidates(hotkeys)
            /\ UNCHANGED <<hotkeys, hotkey_id, hotkey_label>>
       ELSE IF hotkey_enabled /\ hotkey_id # NoId
         THEN /\ hotkeys' = UnregisterHotKey(hotkeys, "TrayThread", hotkey_id)
              /\ hotkey_id' = NoId
              /\ hotkey_label' = "(disabled)"
              /\ UNCHANGED <<tpc, regIdx, regAttempts, regRet, ownedAtStart>>
         ELSE UNCHANGED <<tpc, regIdx, regAttempts, regRet, ownedAtStart,
                          hotkeys, hotkey_id, hotkey_label>>
  /\ UNCHANGED <<hpc, hkChanges, reissued>>
  /\ UNCHANGED notHk

\* the tray menu item "Quit": _quit on the tray thread unregisters
\* hotkey_id, stops the icon and asks the Tk main loop to end
Quit ==
  /\ hpc = "loop" /\ tpc = "idle"
  /\ toggles < MaxToggles
  /\ toggles' = toggles + 1
  /\ hotkeys' = IF hotkey_id # NoId
                  THEN UnregisterHotKey(hotkeys, "TrayThread", hotkey_id)
                  ELSE hotkeys
  /\ tpc' = "quit"
  /\ UNCHANGED <<hpc, regIdx, regAttempts, regRet, hotkey_id, hotkey_label,
                 hotkey_enabled, ownedAtStart, hkChanges, reissued>>
  /\ UNCHANGED notHk

\* App.run returns after root.mainloop(), the daemon threads die with the
\* process and the OS drops the hotkeys of its threads
ProcessExit ==
  /\ tpc = "quit"
  /\ hotkeys' = hotkeys \ OwnBindings(hotkeys)
  /\ tpc' = "exited"
  /\ hpc' = "exited"
  /\ UNCHANGED <<regIdx, regAttempts, regRet, hotkey_id, hotkey_label,
                 hotkey_enabled, ownedAtStart, hkChanges, toggles, reissued>>
  /\ UNCHANGED notHk

NextHotkey ==
  \/ HotkeyLoopStart \/ TryCandidate \/ AssignHotkey \/ RegisterChat
  \/ OtherAppHotkey \/ ToggleHotkey \/ Quit \/ ProcessExit

SpecHotkey == InitHotkey /\ [][NextHotkey]_vars

(* ------------- get_clipboard_text / set_clipboard_text, stepwise ------- *)
\* One call of a clipboard helper, API call by API call, against a
\* clipboard that another application may hold open.

\* win32clipboard.OpenClipboard raises while someone else has it open
CanOpen(holder) == holder = "none"

\* a helper that goes from the `except` clause straight to its return
AfterTryBody_noFinally(raised) == IF raised THEN "return" ELSE "close"

\* where a helper goes when its try body ends, normally or by an
\* exception that `except Exception` caught: the `finally` clause
AfterTryBody(raised) == "close"

ClipCallArgs == {[fn |-> "get", text |-> None],
                 [fn |-> "set", text |-> "saved"],
                 [fn |-> "set", text |-> ""]}

\* the application calls get_clipboard_text() or set_clipboard_text(text)
ClipCall ==
  /\ cpc = "idle"
  /\ clipCalls < MaxClipCalls
  /\ clipCalls' = clipCalls + 1
  /\ ccall' \in ClipCallArgs
  /\ ctext' = None
  /\ cret' = [kind |-> "none", value |-> None]
  /\ clipBefore' = clip
  /\ apiTrace' = <<>>
  /\ cpc' = "open"
  /\ UNCHANGED <<clip, clipSeq, clipHolder, opens, closes, apiFails,
                 otherOpens>>
  /\ UNCHANGED notClip

\* win32clipboard.OpenClipboard()
ClipOpen ==
  /\ cpc = "open"
  /\ IF CanOpen(clipHolder)
       THEN /\ clipHolder' = "app"
            /\ opens' = opens + 1
            /\ cpc' = IF ccall.fn = "get" THEN "getData" ELSE "empty"
            /\ apiTrace' = Append(apiTrace, <<"OpenClipboard", "ok">>)
       ELSE /\ cpc' = AfterTryBody(TRUE)
            /\ apiTrace' = Append(apiTrace, <<"OpenClipboard", "raised">>)
            /\ UNCHANGED <<clipHolder, opens>>
  /\ UNCHANGED <<clip, clipSeq, ccall, ctext, cret, closes, apiFails,
                 clipCalls, otherOpens, clipBefore>>
  /\ UNCHANGED notClip

\* get_clipboard_text: the two IsClipboardFormatAvailable calls, then
\* GetClipboardData (which may raise) and the decoding of CF_TEXT
ClipGetData ==
  /\ cpc = "getData"
  /\ \E raised \in BOOLEAN :
       /\ raised => apiFails < MaxApiFails /\ ReadableText(clip) # None
       /\ apiFails' = IF raised THEN apiFails + 1 ELSE apiFails
       /\ ctext' = IF raised THEN None ELSE ReadableText(clip)
       /\ cpc' = AfterTryBody(raised)
       /\ apiTrace' = Append(apiTrace, <<"GetClipboardData",
                                         IF raised THEN "raised" ELSE "ok">>)
  /\ UNCHANGED <<clip, clipSeq, clipHolder, ccall, cret, opens, closes,
                 clipCalls, otherOpens, clipBefore>>
  /\ UNCHANGED notClip

\* set_clipboard_text: win32clipboard.EmptyClipboard()
ClipEmpty ==
  /\ cpc = "empty"
  /\ \E raised \in BOOLEAN :
       /\ raised => apiFails < MaxApiFails
       /\ apiFails' = IF raised THEN apiFails + 1 ELSE apiFails
       /\ clip' = IF raised THEN clip ELSE EmptyClip
       /\ clipSeq' = IF raised THEN clipSeq ELSE clipSeq + 1
       /\ cpc' = IF raised THEN AfterTryBody(TRUE) ELSE "setData"
       /\ apiTrace' = Append(apiTrace, <<"EmptyClipboard",
                                         IF raised THEN "raised" ELSE "ok">>)
  /\ UNCHANGED <<clipHolder, ccall, ctext, cret, opens, closes, clipCalls,
                 otherOpens, clipBefore>>
  /\ UNCHANGED notClip

\* set_clipboard_text: win32clipboard.SetClipboardData(CF_UNICODETEXT, text)
ClipSetData ==
  /\ cpc = "setData"
  /\ \E raised \in BOOLEAN :
       /\ raised => apiFails < MaxApiFails
       /\ apiFails' = IF raised THEN apiFails + 1 ELSE apiFails
       /\ clip' = IF raised THEN clip ELSE SetTextContent(clip, ccall.text)
       /\ clipSeq' = IF raised THEN clipSeq ELSE clipSeq + 1
       /\ cpc' = AfterTryBody(raised)
       /\ apiTrace' = Append(apiTrace, <<"SetClipboardData",
                                         IF raised THEN "raised" ELSE "ok">>)
  /\ UNCHANGED <<clipHolder, ccall, ctext, cret, opens, closes, clipCalls,
                 otherOpens, clipBefore>>
  /\ UNCHANGED notClip

\* finally: try: win32clipboard.CloseClipboard() except Exception: pass.
\* The call releases the clipboard when this process holds it and raises
\* otherwise.
ClipClose ==
  /\ cpc = "close"
  /\ IF clipHolder = "app"
       THEN clipHolder' = "none" /\ closes' = closes + 1
       ELSE UNCHANGED <<clipHolder, closes>>
  /\ apiTrace' = Append(apiTrace, <<"CloseClipboard",
         IF clipHolder = "app" THEN "ok" ELSE "raised">>)
  /\ cpc' = "return"
  /\ UNCHANGED <<clip, clipSeq, ccall, ctext, cret, opens, apiFails,
                 clipCalls, otherOpens, clipBefore>>
  /\ UNCHANGED notClip

\* return text / the implicit return None
ClipReturn ==
  /\ cpc = "return"
  /\ cret' = [kind |-> "value",
              value |-> IF ccall.fn = "get" THEN ctext ELSE None]
  /\ cpc' = "idle"
  /\ UNCHANGED <<clip, clipSeq, clipHolder, ccall, ctext, opens, closes,
                 apiFails, clipCalls, otherOpens, clipBefore, apiTrace>>
  /\ UNCHANGED notClip

\* another application opens the clipboard
OtherAppOpens ==
  /\ clipHolder = "none"
  /\ otherOpens < MaxOtherOpens
  /\ otherOpens' = otherOpens + 1
  /\ clipHolder' = "other"
  /\ UNCHANGED <<clip, clipSeq, cpc, ccall, ctext, cret, opens, closes,
                 apiFails, clipCalls, clipBefore, apiTrace>>
  /\ UNCHANGED notClip

\* ... and closes it, having written to it or not
OtherAppCloses ==
  /\ clipHolder = "other"
  /\ clipHolder' = "none"
  /\ \/ UNCHANGED <<clip, clipSeq>>
     \/ clip' \in OtherPayloads /\ clipSeq' = clipSeq + 1
  /\ UNCHANGED <<cpc, ccall, ctext, cret, opens, closes, apiFails,
                 clipCalls, otherOpens, clipBefore, apiTrace>>
  /\ UNCHANGED notClip

InitClipboard ==
  /\ phys = [k \in Keys |-> FALSE]
  /\ os = phys
  /\ clip \in InitClips
  /\ clipSeq = 1
  /\ focus = [fg |-> 0, tidOK |-> TRUE, ctl |-> 0]
  /\ appSel = "none"
  /\ appHung = FALSE
  /\ pendingCopy = FALSE
  /\ rejectable = 0
  /\ copyFails = FALSE
  /\ InitAttempt
  /\ InitRegistered
  /\ clipHolder \in {"none", "other"}
  /\ InitClipCall
  /\ InitNoLlm
  /\ InitNoUi
  /\ InitNoSlog
  /\ InitNoKey
  /\ InitNoFocus

NextClipboard ==
  \/ ClipCall \/ ClipOpen \/ ClipGetData \/ ClipEmpty \/ ClipSetData
  \/ ClipClose \/ ClipReturn \/ OtherAppOpens \/ OtherAppCloses

SpecClipboard == InitClipboard /\ [][NextClipboard]_vars

(* ------------------- llm_toast_core: focus inspector ------------------- *)
\* focused_info_for_log() is called
FocusCall ==
  /\ fpc = "idle"
  /\ Len(focusLog) < MaxFocusCalls
  /\ fpc' = "query"
  /\ UNCHANGED focusLog
  /\ UNCHANGED <<capVars, notFoc>>

\* _focused_hwnd_and_class() and the return of its triple
FocusReturn ==
  /\ fpc = "query"
  /\ focusLog' = Append(focusLog,
                        [in |-> focus, out |-> FocusedHwndAndClass(focus)])
  /\ fpc' = "idle"
  /\ UNCHANGED <<capVars, notFoc>>

\* the user brings another window to the foreground or moves the focus
FocusChanges ==
  /\ focus' \in FocusStates \ {focus}
  /\ UNCHANGED <<phys, os, clip, clipSeq, appSel, appHung, pendingCopy, pc,
                 maxWait, now, locals, events, hist, envHist, openFails,
                 changeAt, envInput>>
  /\ UNCHANGED <<focVars, notFoc>>

InitFocus ==
  /\ InitNoCycle
  /\ InitRegistered
  /\ InitNoClipCall
  /\ InitNoLlm
  /\ InitNoUi
  /\ InitNoSlog
  /\ InitNoKey
  /\ InitNoFocus

NextFocus == FocusCall \/ FocusReturn \/ FocusChanges

SpecFocus == InitFocus /\ [][NextFocus]_vars

(* ------------------ llm_toast_session_log: SessionLogger --------------- *)
\* s.replace("\r\n", "\n")
RECURSIVE ReplaceCrLf(_)
ReplaceCrLf(s) ==
  IF s = <<>> THEN <<>>
  ELSE IF Len(s) >= 2 /\ s[1] = "CR" /\ s[2] = "LF"
    THEN <<"LF">> \o ReplaceCrLf(SubSeq(s, 3, Len(s)))
  ELSE <<s[1]>> \o ReplaceCrLf(Tail(s))

\* .replace("\r", "\n")
ReplaceCr(s) == [i \in 1..Len(s) |-> IF s[i] = "CR" THEN "LF" ELSE s[i]]

\* s.strip("\n")
RECURSIVE StripLf(_)
StripLf(s) ==
  IF s = <<>> THEN <<>>
  ELSE IF s[1] = "LF" THEN StripLf(Tail(s))
  ELSE IF s[Len(s)] = "LF" THEN StripLf(SubSeq(s, 1, Len(s) - 1))
  ELSE s

\* _normalize: newlines normalised, no leading or trailing newline
Normalize(s) == StripLf(ReplaceCr(ReplaceCrLf(s)))

\* log_user writes a "You" entry, log_assistant an "Assistant" entry
Who(fn) == IF fn = "log_user" THEN "You" ELSE "Assistant"

\* the string _write_entry hands to _safe_write, as the chunks the file
\* object may write it in: "[ts] who:" line, body line, blank line
EntryChunks(t, n, who, text) ==
  << [by |-> t, n |-> n, part |-> "stamp", s |-> <<who>>],
     [by |-> t, n |-> n, part |-> "body", s |-> Normalize(text)],
     [by |-> t, n |-> n, part |-> "blank", s |-> <<>>] >>

\* the "\n" end_session writes
NewlineChunk(t, n) == [by |-> t, n |-> n, part |-> "newline", s |-> <<>>]

\* a thread calls log_user(text), log_assistant(text) or end_session()
LogCall(t) ==
  /\ lw[t].pc = "idle"
  /\ Cardinality(logCallsMade) < MaxLogCalls
  /\ \E fn \in LogFns :
       \E arg \in IF fn = "end_session"
                     THEN {[isNone |-> TRUE, s |-> <<>>]} ELSE LogArgs :
         /\ lw' = [lw EXCEPT ![t] = [pc |-> "called", fn |-> fn, arg |-> arg,
                                     n |-> @.n + 1, pending |-> <<>>]]
         /\ logCallsMade' = logCallsMade \cup
              {[by |-> t, n |-> lw[t].n + 1, fn |-> fn, arg |-> arg]}
  /\ UNCHANGED <<logFile, logLock>>
  /\ UNCHANGED notSlog

\* `if text is None: return`, else _write_entry up to its `with` (timestamp
\* and body are computed before the lock is taken); end_session goes
\* straight to its `with`
LogEnter(t) ==
  /\ lw[t].pc = "called"
  /\ LET c == lw[t] IN
       lw' = [lw EXCEPT ![t] =
         IF c.fn = "end_session"
           THEN [c EXCEPT !.pc = "lock",
                          !.pending = <<NewlineChunk(t, c.n)>>]
         ELSE IF c.arg.isNone
           THEN [c EXCEPT !.pc = "idle"]
         ELSE [c EXCEPT !.pc = "lock",
                        !.pending = EntryChunks(t, c.n, Who(c.fn), c.arg.s)]]
  /\ UNCHANGED <<logFile, logLock, logCallsMade>>
  /\ UNCHANGED notSlog

LockFree_always(l) == TRUE

\* threading.Lock: acquire blocks while another thread holds the lock
LockFree(l) == l = "free"

\* `with self._lock:` entered
LogAcquire(t) ==
  /\ lw[t].pc = "lock"
  /\ LockFree(logLock)
  /\ logLock' = t
  /\ lw' = [lw EXCEPT ![t].pc = "write"]
  /\ UNCHANGED <<logFile, logCallsMade>>
  /\ UNCHANGED notSlog

\* _safe_write: self._fh.write(s) and flush() put the next chunk of the
\* string at the end of the file (the file is open in append mode)
LogWrite(t) ==
  /\ lw[t].pc = "write"
  /\ logFile' = Append(logFile, Head(lw[t].pending))
  /\ lw' = [lw EXCEPT ![t] =
       [lw[t] EXCEPT !.pending = Tail(lw[t].pending),
                     !.pc = IF Len(lw[t].pending) = 1 THEN "release"
                            ELSE "write"]]
  /\ UNCHANGED <<logLock, logCallsMade>>
  /\ UNCHANGED notSlog

\* the `with` block is left and the method returns
LogRelease(t) ==
  /\ lw[t].pc = "release"
  /\ logLock' = "free"
  /\ lw' = [lw EXCEPT ![t].pc = "idle"]
  /\ UNCHANGED <<logFile, logCallsMade>>
  /\ UNCHANGED notSlog

InitSlog ==
  /\ InitNoCycle
  /\ InitRegistered
  /\ InitNoClipCall
  /\ InitNoLlm
  /\ InitNoUi
  /\ InitNoSlog
  /\ InitNoKey
  /\ InitNoFocus

NextSlog ==
  \E t \in LogThreads :
    LogCall(t) \/ LogEnter(t) \/ LogAcquire(t) \/ LogWrite(t) \/ LogRelease(t)

SpecSlog == InitSlog /\ [][NextSlog]_vars

(* --------------- llm_toast_settings: the stored API key ---------------- *)
\* _dpapi_protect(key.encode("utf-8")): the blob written to secret.bin
Protect(k) == IF k = "sk-old" THEN "blob-old" ELSE "blob-new"

\* _dpapi_unprotect(enc).decode("utf-8", errors="replace")
Unprotect(b) == IF b = "blob-old" THEN "sk-old" ELSE "sk-new"

\* how a keyring call can end
KeyringOutcomes == IF credFails < MaxCredFails THEN {"ok", "raise"} ELSE {"ok"}

\* the function returns; arg is the key given to set_api_key, the value
\* get_api_key returns, None for delete_api_key
KeyReturn(arg) ==
  /\ keyOps' = Append(keyOps, <<kcall.fn, arg>>)
  /\ kpc' = "idle"

\* set_api_key(key), get_api_key() or delete_api_key() is called
KeyCall ==
  /\ kpc = "idle"
  /\ Len(keyOps) < MaxKeyCalls
  /\ \E fn \in {"set", "get", "delete"} :
       \E key \in IF fn = "set" THEN KeyValues ELSE {None} :
         /\ kcall' = [fn |-> fn, key |-> key]
         /\ kpc' = "keyring"
  /\ UNCHANGED <<keyringLoaded, credStore, secretFile, credFails, keyOps>>
  /\ UNCHANGED notKey

\* the first try block of each function: `if keyring:` and the keyring
\* call; set_api_key returns when set_password succeeded, get_api_key when
\* get_password gave a non-empty value; PasswordDeleteError (nothing to
\* delete) is passed over; any other exception is logged and the function
\* goes on to the DPAPI file
KeyKeyringStep ==
  /\ kpc = "keyring"
  /\ IF ~keyringLoaded
       THEN /\ kpc' = "file"
            /\ UNCHANGED <<credStore, credFails, keyOps>>
       ELSE \E o \in KeyringOutcomes :
         IF o = "raise"
           THEN /\ credFails' = credFails + 1
                /\ kpc' = "file"
                /\ UNCHANGED <<credStore, keyOps>>
         ELSE /\ UNCHANGED credFails
              /\ CASE kcall.fn = "set" ->
                        /\ credStore' = kcall.key
                        /\ KeyReturn(kcall.key)
                   [] kcall.fn = "get" ->
                        /\ UNCHANGED credStore
                        /\ IF credStore # None
                             THEN KeyReturn(credStore)
                             ELSE kpc' = "file" /\ UNCHANGED keyOps
                   [] OTHER ->
                        /\ credStore' = None
                        /\ kpc' = "file"
                        /\ UNCHANGED keyOps
  /\ UNCHANGED <<keyringLoaded, secretFile, kcall>>
  /\ UNCHANGED notKey

\* the second try block: secret.bin is written, read or removed
KeyFileStep ==
  /\ kpc = "file"
  /\ CASE kcall.fn = "set" ->
            /\ secretFile' = Protect(kcall.key)
            /\ KeyReturn(kcall.key)
       [] kcall.fn = "get" ->
            /\ UNCHANGED secretFile
            /\ KeyReturn(IF secretFile # "absent"
                           THEN Unprotect(secretFile) ELSE None)
       [] OTHER ->
            /\ secretFile' = "absent"
            /\ KeyReturn(None)
  /\ UNCHANGED <<keyringLoaded, credStore, kcall, credFails>>
  /\ UNCHANGED notKey

\* any prior contents of the credential store and of secret.bin, with or
\* without the keyring module
InitKey ==
  /\ InitNoCycle
  /\ InitRegistered
  /\ InitNoClipCall
  /\ InitNoLlm
  /\ InitNoUi
  /\ InitNoSlog
  /\ keyringLoaded \in BOOLEAN
  /\ credStore \in KeyValues \cup {None}
  /\ secretFile \in {"absent"} \cup {Protect(k) : k \in KeyValues}
  /\ kpc = "idle"
  /\ kcall = [fn |-> "get", key |-> None]
  /\ credFails = 0
  /\ keyOps = <<>>
  /\ InitNoFocus

NextKey == KeyCall \/ KeyKeyringStep \/ KeyFileStep

SpecKey == InitKey /\ [][NextKey]_vars

(* ---------------- llm_toast_llm: explain_selection / chat -------------- *)
\* the calls checked: explain_selection(text), chat(user_text) and
\* chat(user_text, session=SessionLogger())
LlmCalls == {[fn |-> "explain", session |-> "none"],
             [fn |-> "chat", session |-> "none"],
             [fn |-> "chat", session |-> "logger"]}

\* the methods class SessionLogger defines
SessionLoggerMethods == {"log_user", "log_assistant", "log_response",
                         "log_error", "end_session", "close"}

\* `if session: session.log_request(...)` before each _post_json raises
\* AttributeError when the session object has no such method
LogRequestRaises(session) ==
  session = "logger" /\ "log_request" \notin SessionLoggerMethods

\* the reply text as characters
ReplyChars == <<"r">>

NextShape_skipsTokenParams(shape) ==
  IF shape = "resp1" THEN "resp2" ELSE "resp1"

\* what a request shape is followed by inside the chat/completions part of
\* _request_with_fallbacks
NextShape(shape) ==
  CASE shape = "gpt5" -> "cc1"
    [] shape = "cc1" -> "cc2"
    [] shape = "cc2" -> "cc3"
    [] shape = "cc3" -> "resp1"
    [] OTHER -> "resp2"

AfterPost_retriesEveryFailure(shape, outcome) ==
  IF outcome = "ok" THEN "return"
  ELSE IF shape = "resp2" THEN "raise"
  ELSE NextShape(shape)

\* what one POST leads to: "return" (a reply was extracted), "raise" (an
\* exception leaves the request functions) or the next shape to try
AfterPost(shape, outcome) ==
  IF outcome = "ok" THEN "return"
  ELSE IF shape \in {"gpt5", "cc1", "cc2", "cc3"}
    THEN IF outcome \in {"paramError", "endpointError"}
           THEN NextShape(shape) ELSE "raise"
  ELSE IF shape = "resp1"
    THEN IF outcome \in {"invalidText", "badFormat"}
           THEN NextShape(shape) ELSE "raise"
  ELSE "raise"

\* the application calls explain_selection(text) or chat(user_text)
LlmCall ==
  /\ lpc = "call"
  /\ lpc' = "key"
  /\ UNCHANGED <<lcall, apiKey, settingsJson, httpLog, lret>>
  /\ UNCHANGED notLlm

\* key = settings.get_api_key(); if not key: return the helper message
LlmGetKey ==
  /\ lpc = "key"
  /\ IF NoKey(apiKey)
       THEN /\ lret' = [kind |-> "value", text |-> NoKeyMessage]
            /\ lpc' = "returned"
       ELSE /\ lpc' = "config"
            /\ UNCHANGED lret
  /\ UNCHANGED <<lcall, apiKey, settingsJson, httpLog>>
  /\ UNCHANGED notLlm

\* _load_config(), called outside the try of explain_selection and chat
LlmLoadConfig ==
  /\ lpc = "config"
  /\ IF LoadConfigRaises(settingsJson)
       THEN /\ lret' = [kind |-> "raised", text |-> "AttributeError"]
            /\ lpc' = "returned"
       ELSE /\ lpc' = IF lcall.fn = "chat" /\ IsGpt5(ChatModel(settingsJson))
                        THEN "gpt5" ELSE "cc1"
            /\ UNCHANGED lret
  /\ UNCHANGED <<lcall, apiKey, settingsJson, httpLog>>
  /\ UNCHANGED notLlm

\* one _post_json of _chat_with_gpt5_websearch, _chat_completions or
\* _responses and what the callers do with its outcome; an exception that
\* leaves them is caught by `except Exception` in explain_selection / chat.
\* With a session, log_request is called before the POST and log_response
\* (which is log_assistant) with the extracted reply after it.
LlmPost ==
  /\ lpc \in Shapes
  /\ IF LogRequestRaises(lcall.session)
       THEN /\ lret' = [kind |-> "value", text |-> LlmErrorPrefix]
            /\ lpc' = "returned"
            /\ UNCHANGED <<httpLog, logFile>>
       ELSE \E outcome \in Outcomes :
         /\ httpLog' = Append(httpLog, <<lpc, outcome>>)
         /\ LET after == AfterPost(lpc, outcome) IN
              IF after = "return"
                THEN /\ lret' = [kind |-> "value", text |-> "reply"]
                     /\ lpc' = "returned"
                     /\ logFile' = IF lcall.session = "logger"
                          THEN logFile \o
                               EntryChunks("llm", 1, "Assistant", ReplyChars)
                          ELSE logFile
              ELSE IF after = "raise"
                THEN /\ lret' = [kind |-> "value", text |-> LlmErrorPrefix]
                     /\ lpc' = "returned"
                     /\ UNCHANGED logFile
              ELSE /\ lpc' = after
                   /\ UNCHANGED <<lret, logFile>>
  /\ UNCHANGED <<lcall, apiKey, settingsJson>>
  /\ UNCHANGED <<logLock, lw, logCallsMade>>
  /\ UNCHANGED notLlmSlog

InitLlm ==
  /\ lpc = "call"
  /\ lcall \in LlmCalls
  /\ apiKey \in ApiKeys
  /\ settingsJson \in SettingsFiles
  /\ httpLog = <<>>
  /\ lret = [kind |-> "none", text |-> None]
  /\ InitNoCycle
  /\ InitRegistered
  /\ InitNoClipCall
  /\ InitNoUi
  /\ InitNoSlog
  /\ InitNoKey
  /\ InitNoFocus

NextLlm == LlmCall \/ LlmGetKey \/ LlmLoadConfig \/ LlmPost

SpecLlm == InitLlm /\ [][NextLlm]_vars

(* ------------- threads, task queue and chat window (ui.py) ------------- *)
\* The UI thread runs the Tk main loop: _drain_tasks, the chat window's
\* handlers and `after` callbacks; it handles nothing while it is inside a
\* call that blocks. The hotkey thread, the tray thread (pystray menu
\* callbacks) and the chat workers run beside it.

\* one WM_HOTKEY message taken from GetMessageW by _hotkey_loop
HotkeyMessage ==
  /\ hpc = "loop"
  /\ uiEvents < MaxUiEvents
  /\ uiEvents' = uiEvents + 1
  /\ \E h \in hotkeys :
       /\ h.owner = "HotkeyThread"
       /\ LET wParam == h.id
              put == IF hotkey_id # NoId /\ wParam = hotkey_id
                        /\ hotkey_enabled
                       THEN <<"_on_hotkey">>
                     ELSE IF wParam = ChatHotkeyId /\ hotkey_enabled
                       THEN <<"_toggle_chat">>
                     ELSE <<>> IN
            /\ tasks' = tasks \o put
            /\ enqueued' = enqueued \o put
            /\ lastMsg' = [wParam |-> wParam, enabled |-> hotkey_enabled,
                           id |-> hotkey_id, put |-> put]
  /\ UNCHANGED <<upc, drainScheduled, win, sending, prev_response_id, wpc,
                 afterQueue, llmBy, uiTouched, attemptsStarted, cyclesEnded,
                 executed, afterClose, appended, workersStarted,
                 entersIgnored>>
  /\ UNCHANGED notUi

\* the Tk main loop runs the `after` callback _drain_tasks
DrainStart ==
  /\ upc = "idle"
  /\ drainScheduled
  /\ drainScheduled' = FALSE
  /\ upc' = "drain"
  /\ UNCHANGED <<tasks, win, sending, prev_response_id, wpc, afterQueue,
                 uiHist, llmBy, uiTouched, uiEvents>>
  /\ UNCHANGED notUi

\* ChatWindow.is_visible / hide / show, as called by _toggle_chat
ToggledWindow(w) == IF w = "visible" THEN "withdrawn" ELSE "visible"

\* a drain loop that takes the next task while the last one is running
CanTakeTask_whileRunning(u) == u \in {"drain", "attempt", "ask_llm"}

\* `fn = self.tasks.get_nowait()` comes after fn() of the task before it
\* returned
CanTakeTask(u) == u = "drain"

\* a drain loop that a raising task leaves, never to be scheduled again
AfterTaskRaised_leaves == "idle"

\* `except Exception: core.log_exc(...)` around fn(): the loop goes on
AfterTaskRaised == "drain"

\* one turn of `while True:` in _drain_tasks with a task in the queue: the
\* task is taken and called on the UI thread. _on_hotkey enters the capture
\* attempt; _toggle_chat shows or hides the chat window, or raises.
DrainTask ==
  /\ CanTakeTask(upc)
  /\ tasks # <<>>
  /\ tasks' = Tail(tasks)
  /\ IF Head(tasks) = "_on_hotkey"
       THEN /\ upc' = "attempt"
            /\ attemptsStarted' = attemptsStarted + 1
            /\ executed' = Append(executed, <<Head(tasks), "called">>)
            /\ UNCHANGED <<win, uiTouched>>
       ELSE /\ \E raised \in BOOLEAN :
                 IF raised
                   THEN /\ upc' = AfterTaskRaised
                        /\ executed' = Append(executed,
                                              <<Head(tasks), "raised">>)
                        /\ UNCHANGED <<win, uiTouched>>
                   ELSE /\ upc' = "drain"
                        /\ executed' = Append(executed,
                                              <<Head(tasks), "called">>)
                        /\ win' = ToggledWindow(win)
                        /\ uiTouched' = uiTouched \cup
                                          {<<"UIThread", "chat window">>}
            /\ UNCHANGED attemptsStarted
  /\ UNCHANGED <<drainScheduled, sending, prev_response_id, wpc, afterQueue,
                 llmBy, uiEvents, cyclesEnded, enqueued, lastMsg, afterClose,
                 appended,
                 workersStarted, entersIgnored>>
  /\ UNCHANGED notUi

\* core.attempt_copy_via_wmcopy_and_sendinput returned to _on_hotkey:
\* `if not sel: return`, else core.ask_llm(sel) in the same task
AttemptReturns ==
  /\ upc = "attempt"
  /\ \E captured \in BOOLEAN :
       IF captured
         THEN /\ upc' = "ask_llm"
              /\ llmBy' = llmBy \cup {<<"explain_selection", "UIThread">>}
              /\ UNCHANGED cyclesEnded
         ELSE /\ upc' = "drain"
              /\ cyclesEnded' = cyclesEnded + 1
              /\ UNCHANGED llmBy
  /\ UNCHANGED <<tasks, drainScheduled, win, sending, prev_response_id, wpc,
                 afterQueue, uiTouched, uiEvents, attemptsStarted, enqueued,
                 executed, lastMsg, afterClose, appended, workersStarted,
                 entersIgnored>>
  /\ UNCHANGED notUi

\* core.ask_llm returned: _on_hotkey shows the popup and ends
AskLlmReturns ==
  /\ upc = "ask_llm"
  /\ upc' = "drain"
  /\ cyclesEnded' = cyclesEnded + 1
  /\ uiTouched' = uiTouched \cup {<<"UIThread", "popup">>}
  /\ UNCHANGED <<tasks, drainScheduled, win, sending, prev_response_id, wpc,
                 afterQueue, llmBy, uiEvents, attemptsStarted, enqueued,
                 executed, lastMsg, afterClose, appended, workersStarted,
                 entersIgnored>>
  /\ UNCHANGED notUi

\* get_nowait raises queue.Empty: the loop ends and _drain_tasks calls
\* self.root.after(30, self._drain_tasks)
DrainEnd ==
  /\ upc = "drain"
  /\ tasks = <<>>
  /\ upc' = "idle"
  /\ drainScheduled' = TRUE
  /\ UNCHANGED <<tasks, win, sending, prev_response_id, wpc, afterQueue,
                 uiHist, llmBy, uiTouched, uiEvents>>
  /\ UNCHANGED notUi

\* tray menu "Open Chat": pystray calls self._toggle_chat on the tray thread
TrayOpenChat ==
  /\ uiEvents < MaxUiEvents
  /\ uiEvents' = uiEvents + 1
  /\ win' = ToggledWindow(win)
  /\ uiTouched' = uiTouched \cup {<<"TrayThread", "chat window">>}
  /\ UNCHANGED <<tasks, upc, drainScheduled, sending, prev_response_id, wpc,
                 afterQueue, uiHist, llmBy>>
  /\ UNCHANGED notUi

\* tray menu "Options...": pystray calls self._open_options, which builds
\* a tk.Toplevel, on the tray thread
TrayOpenOptions ==
  /\ uiEvents < MaxUiEvents
  /\ uiEvents' = uiEvents + 1
  /\ uiTouched' = uiTouched \cup {<<"TrayThread", "options window">>}
  /\ UNCHANGED <<tasks, upc, drainScheduled, win, sending, prev_response_id,
                 wpc, afterQueue, uiHist, llmBy>>
  /\ UNCHANGED notUi

\* an _on_enter that takes every message
EnterIgnored_never(snd) == FALSE

\* `if self.sending or not self.inp: return "break"`
EnterIgnored(snd) == snd

\* ChatWindow._on_enter with a non-empty message
ChatEnter ==
  /\ upc = "idle"
  /\ win = "visible"
  /\ uiEvents < MaxUiEvents
  /\ uiEvents' = uiEvents + 1
  /\ IF EnterIgnored(sending)
       THEN /\ entersIgnored' = entersIgnored + 1
            /\ UNCHANGED <<sending, wpc, uiTouched, appended,
                           workersStarted, afterClose>>
       ELSE /\ appended' = Append(appended, "You")
            /\ afterClose' = FALSE
            /\ sending' = TRUE
            /\ wpc' = "chat"
            /\ workersStarted' = workersStarted + 1
            /\ uiTouched' = uiTouched \cup {<<"UIThread", "chat window">>}
            /\ UNCHANGED entersIgnored
  /\ UNCHANGED <<tasks, upc, drainScheduled, win, prev_response_id,
                 afterQueue, llmBy, attemptsStarted, cyclesEnded, enqueued,
                 executed, lastMsg>>
  /\ UNCHANGED notUi

\* _send_worker: llm.chat(msg, prev_response_id=...) on the worker thread
WorkerChat ==
  /\ wpc = "chat"
  /\ llmBy' = llmBy \cup {<<"chat", "Worker">>}
  /\ \E rid \in {None, "resp_1"} :
       prev_response_id' = IF rid # None THEN rid ELSE prev_response_id
  /\ wpc' = "replied"
  /\ UNCHANGED <<tasks, upc, drainScheduled, win, sending, afterQueue,
                 uiHist, uiTouched, uiEvents>>
  /\ UNCHANGED notUi

\* _send_worker: self.root.after(0, back), called on the worker thread
WorkerSchedulesBack ==
  /\ wpc = "replied"
  /\ afterQueue' = Append(afterQueue, "back")
  /\ uiTouched' = uiTouched \cup {<<"Worker", "root.after">>}
  /\ wpc' = "none"
  /\ UNCHANGED <<tasks, upc, drainScheduled, win, sending, prev_response_id,
                 uiHist, llmBy, uiEvents>>
  /\ UNCHANGED notUi

\* back(): nothing when the window was destroyed, else the reply is
\* appended and sending is reset
Back ==
  /\ upc = "idle"
  /\ afterQueue # <<>>
  /\ afterQueue' = Tail(afterQueue)
  /\ IF win = "none"
       THEN UNCHANGED <<sending, uiTouched, appended>>
       ELSE /\ appended' = Append(appended, "Assistant")
            /\ sending' = FALSE
            /\ uiTouched' = uiTouched \cup {<<"UIThread", "chat window">>}
  /\ UNCHANGED <<tasks, upc, drainScheduled, win, prev_response_id, wpc,
                 llmBy, uiEvents, attemptsStarted, cyclesEnded, enqueued,
                 executed, lastMsg, afterClose, workersStarted,
                 entersIgnored>>
  /\ UNCHANGED notUi

\* the user closes the chat window by its titlebar: _on_close
ChatClose ==
  /\ upc = "idle"
  /\ win = "visible"
  /\ uiEvents < MaxUiEvents
  /\ uiEvents' = uiEvents + 1
  /\ prev_response_id' = None
  /\ win' = "none"
  /\ afterClose' = TRUE
  /\ uiTouched' = uiTouched \cup {<<"UIThread", "chat window">>}
  /\ UNCHANGED <<tasks, upc, drainScheduled, sending, wpc, afterQueue,
                 llmBy, attemptsStarted, cyclesEnded, enqueued, executed,
                 lastMsg, appended, workersStarted, entersIgnored>>
  /\ UNCHANGED notUi

InitUi ==
  /\ InitNoCycle
  /\ InitRegistered
  /\ InitNoClipCall
  /\ InitNoLlm
  /\ InitNoUi
  /\ InitNoSlog
  /\ InitNoKey
  /\ InitNoFocus

\* the tray thread inside _toggle_hotkey
TrayRegisters ==
  /\ tpc \in {"register", "assign", "registerChat"}
  /\ TryCandidate \/ AssignHotkey \/ RegisterChat

NextUi ==
  \/ HotkeyMessage \/ DrainStart \/ DrainTask \/ AttemptReturns
  \/ AskLlmReturns \/ DrainEnd
  \/ TrayOpenChat \/ TrayOpenOptions
  \/ ChatEnter \/ WorkerChat \/ WorkerSchedulesBack \/ Back \/ ChatClose
  \/ ToggleHotkey \/ TrayRegisters

SpecUi == InitUi /\ [][NextUi]_vars

\* Task view: hotkey messages and the task pump alone. The Tk main loop
\* keeps running its `after` callbacks, and every blocking call made by a
\* task returns.
NextTasks ==
  \/ HotkeyMessage \/ DrainStart \/ DrainTask \/ AttemptReturns
  \/ AskLlmReturns \/ DrainEnd

SpecTasks ==
  /\ InitUi
  /\ [][NextTasks]_vars
  /\ WF_vars(DrainStart) /\ WF_vars(DrainTask) /\ WF_vars(DrainEnd)
  /\ WF_vars(AttemptReturns) /\ WF_vars(AskLlmReturns)

\* the steps of one hotkey cycle on the UI thread
Cycle ==
  \/ Enter \/ ReadOriginal \/ ReadFocus \/ SendWmCopy \/ PollA
  \/ Lift \/ CtrlDown \/ CDown \/ CUp \/ CtrlUp \/ CtrlRestore
  \/ RestoreLifted \/ PollB \/ Return
  \/ AfterAttempt \/ AskAndShow \/ RestoreClipboard

Next == Cycle \/ AppCopies \/ OtherAppWrites

Spec == Init /\ [][Next]_vars

NextKeys == Cycle \/ AppCopies \/ UserKey

SpecKeys == InitKeys /\ [][NextKeys]_vars

NextFaults == Cycle \/ AppCopies \/ OtherAppWrites

SpecFaults == InitFaults /\ [][NextFaults]_vars

(* ============================== claims ================================= *)
Count(q, e) == Cardinality({i \in 1..Len(q) : q[i] = e})
Elems(q) == {q[i] : i \in 1..Len(q)}
FirstIdx(q, e) == CHOOSE i \in 1..Len(q) : q[i] = e /\ \A j \in 1..(i - 1) : q[j] # e
Min(S) == CHOOSE x \in S : \A y \in S : x <= y

\* attempt_copy_via_wmcopy_and_sendinput has returned
Returned == pc \in {"returned", "askLlm", "restoreClipboard", "done"}
\* Strategy B was entered and ran to the end of its poll
StrategyBRan == bStart >= 0
\* absent when the text read is absent or empty
TextOrAbsent(t) == IF t = None \/ t = "" THEN None ELSE t

\* C1: once an attempt that entered Strategy B has returned, the keys that
\* got an injected key-up are exactly the keys in `lifted`, they are among
\* Shift, Alt, Left-Win, Right-Win, and each of them got exactly one
\* injected key-down, after its key-up, whatever the attempt returns.
C1_LiftedRestored ==
  (Returned /\ StrategyBRan) =>
    \A i \in 1..Len(ModKeys) :
      LET k == ModKeys[i] IN
        /\ (k \in Elems(lifted)) <=> (Count(events, <<k, "up">>) >= 1)
        /\ k \in Elems(lifted) =>
             /\ Count(events, <<k, "up">>) = 1
             /\ Count(events, <<k, "down">>) = 1
             /\ FirstIdx(events, <<k, "up">>) < FirstIdx(events, <<k, "down">>)

\* two keys were lifted and the attempt returned a captured text
C1_Witness ==
  /\ Returned /\ StrategyBRan
  /\ Len(lifted) >= 2
  /\ result[1] # None

\* C2: when Strategy A's poll has observed the changed sequence number, no
\* key event is injected at any later point of the attempt, Strategy B's poll
\* never starts, and the attempt returns the text read from the clipboard
\* (absent when there is none or it is empty) with the text read at the
\* start; with no failed open and no write by another application these are
\* the application's selection and the text the clipboard held at the start.
C2_ShortCircuit ==
  changedByA =>
    /\ events = <<>>
    /\ ~StrategyBRan
    /\ lifted = <<>>
    /\ pc \in {"return", "returned", "askLlm", "restoreClipboard", "done"}
    /\ Returned =>
         /\ result = <<TextOrAbsent(selRead), original>>
         /\ (interfered = 0 /\ openFails = 0) =>
              /\ result[1] = TextOrAbsent(ReadableText(Payload(appSel)))
              /\ result[2] = ReadableText(clipAtStart)

\* Strategy A saw the change and the attempt returned "Hello World" with
\* the prior clipboard text
C2_Witness ==
  /\ changedByA /\ pc = "returned"
  /\ pollsA >= 2
  /\ result = <<"Hello World", "old">>

\* C3: when the sequence number at return still equals seq_before, the
\* attempt returns (absent, original) and the clipboard content is the one
\* it held when seq_before was read; original is the text of that content
\* unless the open failed.
C3_NoChangeNoEffect ==
  (pc = "returned" /\ clipSeq = seq_before) =>
    /\ result = <<None, original>>
    /\ clip = clipAtStart
    /\ readsAfter = 0
    /\ openFails = 0 => original = ReadableText(clipAtStart)

\* both strategies ran out of time on an unchanged clipboard holding text
C3_Witness ==
  /\ pc = "returned" /\ clipSeq = seq_before
  /\ sends = 1 /\ StrategyBRan
  /\ original = "o?d"

\* C4: when the capture succeeded, the restore in _on_hotkey reached the
\* clipboard and no other application wrote the clipboard during the cycle,
\* the text a read returns at the end of the cycle is the text a read
\* returned when the attempt started.
C4_RoundTrip ==
  (pc = "done" /\ restoreLanded /\ interfered = 0) =>
    /\ result[1] # None
    /\ ReadableText(clip) = ReadableText(clipAtStart)

\* a captured selection, and a legacy CF_TEXT original restored
C4_Witness ==
  /\ pc = "done" /\ restoreLanded /\ interfered = 0
  /\ result[1] = "Hello World"
  /\ clipAtStart = AnsiClip("bytes:bad")
  /\ clip = UniClip("o?d")

\* C5: at the end of every hotkey cycle in which no other application wrote
\* the clipboard and every clipboard open succeeded, the clipboard's
\* readable text is what it was at the start of the attempt.
C5_ClipboardNeverClobbered ==
  (pc = "done" /\ interfered = 0 /\ openFails = 0) =>
    ReadableText(clip) = ReadableText(clipAtStart)

\* C6: when a strategy detected a change, the attempt has read the clipboard
\* text exactly once after the detection and returns (absent, original) if
\* the read gave no text (absent or empty), else (the text read, original);
\* original is the text read at the start of the attempt.
C6_ResultAfterDetection ==
  (Returned /\ changed) =>
    /\ readsAfter = 1
    /\ result[2] = original
    /\ (selRead = None \/ selRead = "") => result[1] = None
    /\ (selRead # None /\ selRead # "") => result[1] = selRead
    /\ (openFails = 0 /\ interfered = 0) => original = ReadableText(clipAtStart)

\* Strategy B detected the change and the read gave an empty text
C6_Witness ==
  /\ pc = "returned" /\ changed /\ ~changedByA
  /\ selRead = ""
  /\ result = <<None, "old">>

\* the key events of a Ctrl+C with nothing lifted
PlainCtrlC == << <<"CTRL", "down">>, <<"C", "down">>, <<"C", "up">>,
                 <<"CTRL", "up">> >>

C8_WithinBudget == pc = "returned" => now <= maxWait

\* the longest the sleeps between injected key events can add up to
MaxInjectDelay ==
  Len(ModKeys) * LiftSleep + CtrlSleep + 2 * CKeySleep + CtrlSleep
  + Len(ModKeys) * RestoreSleep

\* C8 amended: the two polling loops together last at most max_wait_ms plus
\* less than one poll interval each; the time from entry to return is that
\* plus at most the 300 ms timeout of the copy command and the sleeps
\* between the injected key events.
C8_BoundedBlocking ==
  pc = "returned" =>
    /\ pollTime <= maxWait + 2 * (PollSleep - 1)
    /\ now <= pollTime + SendTimeout + MaxInjectDelay

\* a hung control, four keys lifted: the attempt outlasts max_wait_ms
C8_Witness ==
  /\ pc = "returned"
  /\ appHung /\ Len(lifted) = 4
  /\ now > maxWait + SendTimeout

\* C9: register_first_available tries the candidates in list order under
\* the ids 1, 2, ..., stops at the first one that registers and returns its
\* 1-based index and label, or raises SystemExit after all five failed; when
\* the candidates owned by other registrants do not change meanwhile, the
\* one that registers is the first not owned.
C9_RegisterFirstAvailable ==
  regRet.kind # "none" =>
    LET n == Len(regAttempts) IN
      /\ n \in 1..Len(HOTKEY_OPTIONS)
      /\ \A j \in 1..n : regAttempts[j][1] = j
      /\ \A j \in 1..(n - 1) : ~regAttempts[j][2]
      /\ regRet.kind = "ok" =>
           /\ regAttempts[n][2]
           /\ regRet.id = n
           /\ regRet.label = HOTKEY_OPTIONS[n].label
      /\ regRet.kind = "SystemExit" =>
           /\ n = Len(HOTKEY_OPTIONS)
           /\ ~regAttempts[n][2]
      /\ hkChanges = 0 =>
           LET free == (1..Len(HOTKEY_OPTIONS)) \ ownedAtStart IN
             IF free = {} THEN regRet.kind = "SystemExit"
             ELSE regRet.kind = "ok" /\ regRet.id = Min(free)

\* the first two candidates were owned, the third registered
C9_Witness ==
  /\ regRet.kind = "ok" /\ regRet.id = 3
  /\ regRet.label = "Ctrl+Alt+Z"
  /\ {1, 2} \subseteq ownedAtStart
  /\ hkChanges = 0

\* C10: when register_first_available raised SystemExit, the hotkey thread
\* does not go on to its message loop (the application does not keep
\* running without a selection-capture binding).
C10_FatalAbortsStartup ==
  regRet.kind = "SystemExit" => hpc # "loop"

\* C11: whenever the hotkey is disabled and _toggle_hotkey has returned, and
\* after _quit has returned, the process holds no hotkey binding: neither
\* the selection-capture binding nor the chat binding (id 1002) is left
\* registered with the OS.
C11_UnregisteredWhenOff ==
  (hpc = "loop" /\ ((tpc = "idle" /\ ~hotkey_enabled) \/ tpc = "quit")) =>
    OwnBindings(hotkeys) = {}

\* C12: the process never holds two bindings under one identifier, and it
\* never calls RegisterHotKey under an identifier whose binding it still
\* holds (the chat id 1002 on re-enable included).
C12_OneBindingPerId ==
  /\ \A g, h \in OwnBindings(hotkeys) : g.id = h.id => g = h
  /\ reissued = {}

C14_OpenThenClose ==
  /\ opens - closes \in {0, 1}
  /\ clipHolder = "app" <=> opens = closes + 1
  /\ clipHolder = "app" => cpc \in {"getData", "empty", "setData", "close"}
  /\ cpc \in {"return", "idle"} => clipHolder # "app" /\ opens = closes

\* a helper returned after it had opened the clipboard and an API call
\* had raised inside it
C14_Witness ==
  /\ cpc = "idle"
  /\ cret.kind = "value"
  /\ apiFails = 1
  /\ opens >= 1 /\ closes = opens

\* C15: explain_selection and chat never raise; when no API key is
\* configured they return the fixed helper message without any HTTP
\* request, and when the request fails they return a string that begins
\* with 'LLM error:'.
C15_HelpersNeverRaise ==
  lpc = "returned" =>
    /\ lret.kind = "value"
    /\ NoKey(apiKey) => lret.text = NoKeyMessage /\ httpLog = <<>>
    /\ (httpLog # <<>> /\ httpLog[Len(httpLog)][2] # "ok") =>
         lret.text = LlmErrorPrefix

\* C16: every LLM request, for a selection and for a chat message, is made
\* on a worker thread, and the UI thread is never inside an LLM request.
C16_LlmOnWorkerOnly ==
  /\ \A e \in llmBy : e[2] = "Worker"
  /\ upc # "ask_llm"

\* C17: only the UI thread creates, changes or schedules on Tk objects;
\* the hotkey thread, the tray thread and the chat workers reach the UI
\* through the task queue alone.
C17_UiThreadOnly ==
  \A e \in uiTouched : e[1] = "UIThread"

\* C18: when a capture attempt ends, every one of Shift, Alt, Left-Win,
\* Right-Win and Ctrl is down for the OS exactly if the user holds it,
\* whatever keys the user pressed or released while the attempt ran.
C18_KeysMatchPhysical ==
  pc = "returned" => \A k \in Keys : os[k] = phys[k]

\* the lift loop, and the read of Ctrl after it, are over
LiftLoopDone ==
  StrategyBRan \/ pc \in {"ctrlDown", "cDown", "cUp", "ctrlUp", "ctrlRestore",
                          "restoreLifted"}
CtrlReadDone ==
  StrategyBRan \/ pc \in {"cDown", "cUp", "ctrlUp", "ctrlRestore",
                          "restoreLifted"}
SnapshotDown == {k \in Keys \ {"CTRL"} : ks[k]}

\* C19 as stated: the modifiers lifted in Strategy B are exactly those the
\* snapshot ks, read once on entry, recorded as down, and ctrl_was_down is
\* the snapshot's value for Ctrl.
C19_LiftedFromSnapshot ==
  /\ LiftLoopDone => Elems(lifted) = SnapshotDown
  /\ CtrlReadDone => ctrl_was_down = ks["CTRL"]

\* C19, amended: the modifiers lifted are exactly those that is_key_down
\* reported down when the lift loop came to them, and ctrl_was_down is what
\* is_key_down reported for Ctrl after the loop; they agree with the
\* snapshot ks when the user pressed or released no key in between.
C19_LiftedFromLiveState ==
  /\ LiftLoopDone => Elems(lifted) = liveDown \ {"CTRL"}
  /\ CtrlReadDone => (ctrl_was_down <=> "CTRL" \in liveDown)
  /\ (LiftLoopDone /\ keyEvents = 0) => Elems(lifted) = SnapshotDown
  /\ (CtrlReadDone /\ keyEvents = 0) => ctrl_was_down = ks["CTRL"]

\* the user changed a key after the snapshot, and the loop lifted what it
\* then found down, not what the snapshot says
C19_Witness ==
  /\ pc = "returned" /\ StrategyBRan
  /\ keyEvents = 1
  /\ Elems(lifted) # SnapshotDown
  /\ lifted # <<>>

IfDown(k) == IF k \in liveDown THEN <<k>> ELSE <<>>
HeldInOrder == IfDown("SHIFT") \o IfDown("ALT") \o IfDown("LWIN")
               \o IfDown("RWIN")
EventsOf(keys, dir) == [i \in 1..Len(keys) |-> <<keys[i], dir>>]
\* the key events of Strategy B for the keys found down
ExpectedEvents ==
  EventsOf(HeldInOrder, "up")
  \o (IF "CTRL" \in liveDown THEN <<>> ELSE << <<"CTRL", "down">> >>)
  \o << <<"C", "down">>, <<"C", "up">>, <<"CTRL", "up">> >>
  \o (IF "CTRL" \in liveDown THEN << <<"CTRL", "down">> >> ELSE <<>>)
  \o EventsOf(HeldInOrder, "down")
\* whether a key is down after the injected events so far, counting from
\* what is_key_down reported for it
InjectedDown(k) ==
  LET idx == {i \in 1..Len(events) : events[i][1] = k} IN
    IF idx = {} THEN k \in liveDown
    ELSE \A i \in idx : (\A j \in idx : j <= i) => events[i][2] = "down"

\* C20: Strategy B injects, in this order: key-up for each held modifier
\* in the order Shift, Alt, Left-Win, Right-Win; Ctrl-down only if Ctrl
\* was not down; C-down; C-up; Ctrl-up; Ctrl-down only if Ctrl was down;
\* key-down for each lifted modifier. No key event is injected before
\* Strategy B or after its poll began. When C-down is injected, Ctrl is
\* down and Shift, Alt, Left-Win, Right-Win are up as far as the injected
\* events go, and actually so when the user touches no key meanwhile.
C20_KeyEventOrder ==
  /\ pc \in {"enter", "readOriginal", "readFocus", "sendWmCopy", "pollA"}
       => events = <<>>
  /\ StrategyBRan => events = ExpectedEvents
  /\ pc = "cUp" =>
       /\ events[Len(events)] = <<"C", "down">>
       /\ InjectedDown("CTRL")
       /\ \A k \in Keys \ {"CTRL"} : ~InjectedDown(k)
       /\ keyEvents = 0 => os["CTRL"] /\ \A k \in Keys \ {"CTRL"} : ~os[k]

\* Ctrl, Shift and Alt were held: eight events, Ctrl put down again
C20_Witness ==
  /\ pc = "returned" /\ StrategyBRan
  /\ liveDown = {"CTRL", "SHIFT", "ALT"}
  /\ Len(events) = 8

\* C21: seq_before and original are read before the copy command is sent
\* and before any key event is injected; original is the text the
\* clipboard held at that read (absent when the open failed), nothing
\* assigns it afterwards, and it is the second element of what the attempt
\* returns on every path. The attempt never writes the clipboard: during
\* it the content changes only by the target's copy or by another
\* application.
C21_OriginalBeforeMutation ==
  /\ pc \in {"enter", "readOriginal"} =>
       sends = 0 /\ events = <<>> /\ ~pendingCopy
  /\ pc \in {"enter", "readOriginal"} => clipSeq = 1 + interfered
  /\ pc \notin {"enter", "readOriginal"} =>
       original \in {None, ReadableText(clipAtRead)}
  /\ (pc \notin {"enter", "readOriginal"} /\ openFails = 0) =>
       original = ReadableText(clipAtRead)
  /\ Returned => result[2] = original
  /\ (pc \notin {"enter", "restoreClipboard", "done"} /\ interfered = 0) =>
       /\ clip \in {clipAtStart, Payload(appSel)}
       /\ clipSeq = seq_before => clip = clipAtStart

\* Strategy B captured a selection over a clipboard that held text: the
\* pair returned carries the old text, not the new one
C21_Witness ==
  /\ pc = "returned" /\ StrategyBRan
  /\ result[1] = "Hello World"
  /\ result[2] = "old"
  /\ clip = UniClip("Hello World")

\* Strategy B has begun: a key was read or injected for it
StrategyBBegun ==
  \/ events # <<>> \/ liveDown # {} \/ StrategyBRan
  \/ pc \in {"ctrlDown", "cDown", "cUp", "ctrlUp", "ctrlRestore",
             "restoreLifted", "pollB"}

\* C22: while the attempt is before or inside Strategy A (the copy command
\* and its poll) nothing of Strategy B has happened: no key was read for
\* lifting and no key event injected. When Strategy B has begun, Strategy A
\* is over: it detected nothing, and either it was skipped for want of a
\* focused control or its poll lasted the whole 40% window.
C22_StrategyAThenB ==
  /\ pc \in {"enter", "readOriginal", "readFocus", "sendWmCopy", "pollA"} =>
       ~StrategyBBegun /\ lifted = <<>>
  /\ StrategyBBegun =>
       /\ ~changedByA
       /\ sends = 0 => hwnd_focus = NoHwnd /\ pollsA = 0
       /\ sends = 1 => 10 * pollTime >= 4 * maxWait
       /\ sends <= 1

\* Strategy B injects C-down after Strategy A polled twice in vain
C22_Witness ==
  /\ pc = "cUp"
  /\ sends = 1 /\ pollsA >= 2
  /\ maxWait = 20 /\ pollTime = 8

\* C23: whatever the OS calls report (WM_COPY refused or timed out, key
\* events rejected, no focused control found), an attempt that has returned
\* went through every step: it sent the copy command iff it found a focused
\* control, and unless Strategy A saw a change it passed every key event of
\* Strategy B to SendInput and polled out Strategy B. What it returns is
\* fixed by what the polls and reads saw: absent and original when no poll
\* saw the sequence number differ from seq_before, and otherwise the text
\* read after detection (absent if empty or unreadable) and original.
C23_FaultsDoNotStopAttempt ==
  /\ Returned =>
       /\ sends = (IF hwnd_focus # NoHwnd THEN 1 ELSE 0)
       /\ ~changedByA =>
            /\ StrategyBRan
            /\ events = ExpectedEvents
            /\ 10 * (now - bStart) >= 6 * maxWait \/ changed
       /\ changedByA => events = <<>> /\ changed
       /\ changed => clipSeq # seq_before /\ readsAfter = 1
       /\ result = <<IF changed THEN TextOrAbsent(selRead) ELSE None, original>>
  /\ injectFails <= rejectable
  /\ pc \in {"enter", "readOriginal", "readFocus", "sendWmCopy", "pollA",
             "lift", "ctrlDown", "cDown", "cUp", "ctrlUp", "ctrlRestore",
             "restoreLifted", "pollB", "return", "returned", "askLlm",
             "restoreClipboard", "done"}

\* the copy command was refused, two key events were rejected, and the
\* attempt returned after Strategy B's poll
C23_Witness ==
  /\ pc = "returned"
  /\ sends = 1 /\ ~SendWmCopyReturns
  /\ injectFails = 2
  /\ StrategyBRan
  /\ result = <<None, "old">>

\* C24: a selection returned by the attempt is text that the target
\* application put on the clipboard on the attempt's copy command, never
\* what another application wrote while the attempt was running.
C24_OnlyOwnCopyReported ==
  (Returned /\ result[1] # None) =>
    /\ appSel = "text"
    /\ result[1] = "Hello World"
    /\ result[1] \notin {c.uni : c \in OtherPayloads}

\* C25: a clipboard change that lands before the deadline of the poll in
\* progress is seen by that poll: while a poll is running and the change
\* has landed before its deadline, a sequence-number check is still to
\* come; and an attempt that returned after Strategy B's poll reports the
\* change when it landed before that poll's deadline.
C25_ChangeBeforeDeadlineSeen ==
  /\ (pc \in {"pollA", "pollB"} /\ changeAt >= 0 /\ changeAt < deadline) =>
       (now < deadline \/ changed)
  /\ (Returned /\ StrategyBRan /\ changeAt >= 0 /\ changeAt < deadline) =>
       changed

\* C26: at most one capture attempt is running at any time, and it runs on
\* the UI thread inside its _on_hotkey call: an attempt is started only
\* when every earlier _on_hotkey call has returned. A hotkey message that
\* arrives meanwhile waits in the task queue.
C26_OneAttemptAtATime ==
  /\ attemptsStarted - cyclesEnded \in {0, 1}
  /\ attemptsStarted - cyclesEnded = 1 <=> upc \in {"attempt", "ask_llm"}
  /\ attemptsStarted + Count(tasks, "_on_hotkey") = Count(enqueued, "_on_hotkey")

\* the hotkey fired again while the first attempt is still running
C26_Witness ==
  /\ upc = "attempt"
  /\ attemptsStarted = 1 /\ cyclesEnded = 0
  /\ tasks # <<>> /\ Head(tasks) = "_on_hotkey"

\* the names of the tasks called so far
ExecutedNames == [i \in 1..Len(executed) |-> executed[i][1]]

\* C27: the tasks called so far followed by the tasks waiting are the tasks
\* put on the queue, in the order they were put (each task is called once,
\* first in first out); a task is running on the UI thread only as the last
\* one called; whenever the UI thread is back in the main loop a
\* _drain_tasks callback is pending, also after a task raised; and every
\* task put on the queue is eventually called.
C27_TasksRunOnceInOrder ==
  /\ [](ExecutedNames \o tasks = enqueued)
  /\ [](upc \in {"attempt", "ask_llm"} =>
         executed # <<>> /\ executed[Len(executed)][1] = "_on_hotkey")
  /\ [](upc = "idle" => drainScheduled)
  /\ \A n \in 1..MaxUiEvents :
       (Len(enqueued) >= n) ~> (Len(executed) >= n)

\* a task raised, the tasks behind it were called, and _drain_tasks is
\* scheduled again
C27_Witness ==
  /\ Len(executed) >= 3
  /\ executed[1][2] = "raised"
  /\ executed[3][1] = "_on_hotkey"
  /\ tasks = <<>> /\ upc = "idle" /\ drainScheduled

\* C28: a WM_HOTKEY message handled while hotkey_enabled is false puts no
\* task on the queue; one handled while it is true puts exactly one task
\* there: _on_hotkey only for the identifier in hotkey_id, _toggle_chat
\* only for the chat identifier.
C28_OneTaskPerMessage ==
  lastMsg.wParam # NoId =>
    /\ ~lastMsg.enabled => lastMsg.put = <<>>
    /\ lastMsg.enabled => Len(lastMsg.put) = 1
    /\ lastMsg.put = <<"_on_hotkey">> =>
         lastMsg.id # NoId /\ lastMsg.wParam = lastMsg.id
    /\ lastMsg.put = <<"_toggle_chat">> => lastMsg.wParam = ChatHotkeyId

\* chat requests in flight: a worker running or its reply waiting for the
\* UI thread
RequestsInFlight == (IF wpc # "none" THEN 1 ELSE 0) + Len(afterQueue)

\* C29: when the tray menu has left the hotkey enabled with an identifier
\* in hotkey_id, the OS holds a binding with that identifier for the thread
\* that runs the hotkey message loop, so that pressing its combination
\* sends WM_HOTKEY with that identifier to _hotkey_loop.
C29_BindingOnLoopThread ==
  (hpc = "loop" /\ tpc = "idle" /\ hotkey_enabled /\ hotkey_id # NoId) =>
    \E h \in hotkeys : h.owner = "HotkeyThread" /\ h.id = hotkey_id

\* what a step may do to the chat request
NoSecondRequest ==
  /\ sending =>
       /\ workersStarted' = workersStarted
       /\ Count(appended', "You") = Count(appended, "You")
  /\ workersStarted' # workersStarted =>
       /\ ~sending /\ sending'
       /\ workersStarted' = workersStarted + 1

\* C30: at most one chat request is in flight. A step taken while sending
\* is true starts no worker and appends no "You" line to the transcript; a
\* worker is started only by a step that takes sending from false to true,
\* one worker per such step; and a worker or a pending reply exists only
\* while sending is true.
C30_OneRequestInFlight ==
  /\ [](RequestsInFlight <= 1)
  /\ [](RequestsInFlight = 1 => sending)
  /\ [](workersStarted = Count(appended, "You"))
  /\ [][NoSecondRequest]_vars

\* Enter was pressed while a request was in flight, and nothing came of it
C30_Witness ==
  /\ sending /\ wpc = "chat"
  /\ entersIgnored >= 1
  /\ workersStarted = 1
  /\ appended = <<"You">>

\* C31: sending is true only while something is on its way that will
\* reset it: the worker is running, or its reply waits for the UI thread
\* with the chat window still in existence. Otherwise no step can make
\* sending false again and the chat can send no more.
C31_SendingWillBeReset ==
  sending =>
    \/ wpc # "none"
    \/ afterQueue # <<>>

\* C32: from the moment the chat window is closed by its titlebar until a
\* message is sent after that close, prev_response_id is None.
C32_SessionClearedByClose ==
  afterClose => prev_response_id = None

\* the requests issued by _request_with_fallbacks (the hosted-search request
\* of _chat_with_gpt5_websearch precedes them and is not one of its shapes)
IsFallbackPost(e) == e[1] # "gpt5"

FallbackPosts == SelectSeq(httpLog, IsFallbackPost)

ShapeOrder == <<"cc1", "cc2", "cc3", "resp1", "resp2">>

\* C33: _request_with_fallbacks issues its requests in the fixed order
\* /chat/completions with max_completion_tokens, max_output_tokens,
\* max_tokens, then /responses with 'text' and with 'input_text': the k-th
\* request has the k-th shape, every request before the last one failed, and
\* a request that succeeded is the last one (the call has returned).
C33_ShapesInFixedOrder ==
  /\ Len(FallbackPosts) <= Len(ShapeOrder)
  /\ \A i \in 1..Len(FallbackPosts) : FallbackPosts[i][1] = ShapeOrder[i]
  /\ \A i \in 1..Len(httpLog) :
       httpLog[i][2] = "ok" => (i = Len(httpLog) /\ lpc = "returned")

\* all five shapes were tried and the last one succeeded
C33_Witness ==
  /\ Len(FallbackPosts) = 5
  /\ FallbackPosts[5] = <<"resp2", "ok">>
  /\ lpc = "returned"
  /\ lret.text = "reply"

\* request i of the log failed with an HTTP or transport error that is
\* neither an unsupported-token-parameter nor a 404/405 endpoint error
OtherFailure(i) == httpLog[i][2] \in {"httpError", "networkError", "invalidText"}

\* request i was the last one and the call returned the error text
EndedChain(i) ==
  /\ i = Len(httpLog)
  /\ lpc = "returned"
  /\ lret = [kind |-> "value", text |-> LlmErrorPrefix]

\* C34 as stated: every failure other than an unsupported-token-parameter or
\* a 404/405 endpoint error ends the chain at once, and explain_selection
\* issues at most 5 requests.
C34_OtherFailureEndsChain ==
  /\ \A i \in 1..Len(httpLog) : OtherFailure(i) => EndedChain(i)
  /\ lcall.fn = "explain" => Len(httpLog) <= 5

\* C34 (amended): such a failure ends the chain at once, except that the
\* "Invalid value: 'text'" rejection of the first /responses request is
\* followed by the 'input_text' request; explain_selection issues at most 5
\* requests per call.
C34_OtherFailureEndsChainButText ==
  /\ \A i \in 1..Len(httpLog) :
       (OtherFailure(i) /\ httpLog[i] # <<"resp1", "invalidText">>)
         => EndedChain(i)
  /\ \A i \in 1..Len(httpLog) :
       (httpLog[i] = <<"resp1", "invalidText">> /\ i < Len(httpLog))
         => httpLog[i + 1][1] = "resp2"
  /\ lcall.fn = "explain" => Len(httpLog) <= 5

\* explain_selection met a plain HTTP error at its second request and
\* returned the error text without a third request
C34_Witness ==
  /\ lcall.fn = "explain"
  /\ httpLog = <<<<"cc1", "paramError">>, <<"cc2", "httpError">>>>
  /\ lpc = "returned"
  /\ lret.text = LlmErrorPrefix

\* the 'Assistant' entries in the session log
IsAssistantStamp(c) == c.part = "stamp" /\ c.s = <<"Assistant">>

\* C35: when chat() was called with a SessionLogger as session, a key is
\* configured and the configuration loads, the call does not return without
\* having issued an HTTP request; and when its last request succeeded, the
\* reply is returned and the log holds exactly one 'Assistant' entry.
C35_LoggedChatPosts ==
  (/\ lcall = [fn |-> "chat", session |-> "logger"]
   /\ lpc = "returned"
   /\ ~NoKey(apiKey)
   /\ ~LoadConfigRaises(settingsJson))
    => /\ httpLog # <<>>
       /\ httpLog[Len(httpLog)][2] = "ok" =>
            /\ lret.text = "reply"
            /\ Len(SelectSeq(logFile, IsAssistantStamp)) = 1

\* the chunks of the file that belong to the call c, in file order
CallChunks(c) == SelectSeq(logFile, LAMBDA x : x.by = c.by /\ x.n = c.n)

PartsOf(chunks) == [i \in 1..Len(chunks) |-> chunks[i].part]

\* what a call has to put into the file
ExpectedParts(c) ==
  IF c.fn = "end_session" THEN <<"newline">>
  ELSE IF c.arg.isNone THEN <<>>
  ELSE <<"stamp", "body", "blank">>

\* the call c has not returned yet
LogCallInProgress(c) == lw[c.by].n = c.n /\ lw[c.by].pc # "idle"

StartsWith(long, short) ==
  Len(short) <= Len(long) /\ SubSeq(long, 1, Len(short)) = short

\* no chunk of another call lies between two chunks of one call
LogEntriesContiguous ==
  \A i, j \in 1..Len(logFile) :
    (i < j /\ logFile[i].by = logFile[j].by /\ logFile[i].n = logFile[j].n)
      => \A k \in i..j :
           logFile[k].by = logFile[i].by /\ logFile[k].n = logFile[i].n

\* a call that returned left exactly its entry (nothing for text None), a
\* call in progress a beginning of it
LogEntriesWhole ==
  \A c \in logCallsMade :
    IF LogCallInProgress(c)
      THEN StartsWith(ExpectedParts(c), PartsOf(CallChunks(c)))
      ELSE PartsOf(CallChunks(c)) = ExpectedParts(c)

\* a step only adds at the end of the file
LogAppendOnly == StartsWith(logFile', logFile)

\* C36: with log_user, log_assistant and end_session called concurrently on
\* one SessionLogger, every entry (timestamp line, body, blank line) lies in
\* the file as one contiguous block, a call with text None writes nothing,
\* and no step changes what the file already holds.
C36_EntriesWholeAndAppendOnly ==
  /\ [](LogEntriesContiguous /\ LogEntriesWhole)
  /\ [][LogAppendOnly]_vars

\* one thread is in the middle of writing its entry while the other waits
\* for the lock with an entry of its own, after a call with text None
C36_Witness ==
  /\ \E t \in LogThreads, u \in LogThreads :
       /\ lw[t].pc = "write" /\ Len(lw[t].pending) = 2
       /\ lw[u].pc = "lock" /\ Len(lw[u].pending) = 3
  /\ \E c \in logCallsMade :
       c.fn # "end_session" /\ c.arg.isNone /\ ~LogCallInProgress(c)

\* C37: a get_api_key() that directly follows set_api_key(k) returns k, and
\* one that directly follows delete_api_key() returns None, whatever the
\* credential store and secret.bin held before and whichever keyring calls
\* failed.
C37_KeyRoundTrips ==
  \A i \in 1..(Len(keyOps) - 1) :
    keyOps[i + 1][1] = "get" =>
      /\ keyOps[i][1] = "set" => keyOps[i + 1][2] = keyOps[i][2]
      /\ keyOps[i][1] = "delete" => keyOps[i + 1][2] = None

\* the API call f of the current helper call ended with outcome o
ApiCalled(f, o) == \E i \in 1..Len(apiTrace) : apiTrace[i] = <<f, o>>

\* the current helper call is over (its finally clause has run)
HelperOver == cpc \in {"return", "idle"} /\ apiTrace # <<>>

\* a step of the helper itself while its OpenClipboard has failed
StepAfterFailedOpen ==
  ApiCalled("OpenClipboard", "raised") /\ cpc' # cpc /\ cpc # "idle"

\* after a failed OpenClipboard the helper does not change the clipboard
FailedOpenLeavesClipboard ==
  StepAfterFailedOpen => (clip' = clip /\ clipSeq' = clipSeq)

\* a set_clipboard_text in which an API call raised has just closed the
\* clipboard
FailedSetOver ==
  /\ cpc = "return"
  /\ ccall.fn = "set"
  /\ \E f \in {"OpenClipboard", "EmptyClipboard", "SetClipboardData"} :
       ApiCalled(f, "raised")

\* C38: when the clipboard cannot be opened, get_clipboard_text returns
\* None and set_clipboard_text leaves the clipboard unchanged, neither
\* raises, and CloseClipboard is still called; and a set_clipboard_text in
\* which an API call failed never leaves the clipboard emptied without the
\* new text.
C38_FailuresLeaveClipboard ==
  /\ [][FailedOpenLeavesClipboard]_vars
  /\ []((cpc = "idle" /\ clipCalls > 0) => cret.kind = "value")
  /\ []((HelperOver /\ ApiCalled("OpenClipboard", "raised")) =>
          /\ \E o \in {"ok", "raised"} : ApiCalled("CloseClipboard", o)
          /\ (cpc = "idle" /\ ccall.fn = "get") => cret.value = None)
  /\ []((FailedSetOver /\ clipBefore # EmptyClip) =>
          ~(ApiCalled("EmptyClipboard", "ok") /\ clip = EmptyClip))

\* C39: the focus inspector degrades to absent fields: with no foreground
\* window all three fields are absent; when the thread of the foreground
\* window cannot be queried, the foreground handle is returned and the focus
\* handle and class name are absent; and a class name is present only when
\* a focused-control handle is present.
C39_FocusFieldsDegrade ==
  \A i \in 1..Len(focusLog) :
    LET met == focusLog[i].in
        got == focusLog[i].out
    IN /\ met.fg = NoHwnd =>
            (got.fg = NoHwnd /\ got.focus = NoHwnd /\ got.cls = None)
       /\ (met.fg # NoHwnd /\ ~met.tidOK) =>
            (got.fg = met.fg /\ got.focus = NoHwnd /\ got.cls = None)
       /\ got.cls # None => got.focus # NoHwnd

\* three inspections met no foreground window, a foreground window whose
\* thread could not be queried, and a focused control with a class name
C39_Witness ==
  /\ Len(focusLog) = 3
  /\ \E i \in 1..3 : focusLog[i].in.fg = NoHwnd
  /\ \E i \in 1..3 : focusLog[i].in.fg # NoHwnd /\ ~focusLog[i].in.tidOK
  /\ \E i \in 1..3 : focusLog[i].out.cls = "Edit"

====
